---------------------------- MODULE Spec2Model ----------------------------
(***************************************************************************)
(* A model of the order lifecycle subsystem of market-bots:                *)
(*   src/src/exchange_client.py  ExchangeClient (counters, pending-order   *)
(*                               table, order-id map, listener, observers) *)
(*   src/src/messages.py         the wire codec used by the client         *)
(*   src/src/enums.py            the enum codes                            *)
(*   src/src/position.py         Position and Portfolio (ledgers, trade    *)
(*                               log, realized and unrealized P&L)         *)
(*   src/src/base_bot.py         the fill observer that feeds the Portfolio*)
(*                                                                         *)
(* Threads.  Caller threads run send_limit_order, send_market_order,       *)
(* cancel_order, get_pending_orders and get_order_id.  The listener thread *)
(* runs _listen_loop/_handle_message and, inside it, the registered        *)
(* observers, which may call back into the client on the listener thread.  *)
(* A `with self._lock:` block of a client call is one step, enabled when   *)
(* the lock is free (no statement of a block blocks, and every access to   *)
(* the counters and the two maps is made under the lock).  The blocks of   *)
(* _handle_message are two steps, the acquisition and the body with the    *)
(* release, so that the lock is seen held by the listener.                 *)
(*                                                                         *)
(* The dataclasses of messages.py are constructed with keyword arguments   *)
(* only, so the model reads the constructors field by field.               *)
(***************************************************************************)
EXTENDS Integers, Sequences, FiniteSets, TLC

(***************************************************************************)
(* Bounds of the model.                                                    *)
(***************************************************************************)
\* inbound messages received in SpecInbound
MaxInboundLate == 3
\* Portfolio.update calls made in SpecPortfolio and SpecReader
MaxFills == 2
\* number of caller threads of SpecSubmit
NumCallers == 2
\* outbound sequence numbers that may be allocated (caps next_seq)
MaxSeq == 2
\* inbound messages the listener receives under Spec
MaxInbound == 1
\* inbound messages the listener receives under SpecLifecycle
MaxInboundLifecycle == 2
\* inbound messages the listener receives under SpecDispatch
MaxInboundDispatch == 2
\* observers registered over the three body types together
MaxObservers == 2
\* largest qty, fill_qty and id carried by the envelopes given to the codec
MaxCodecQty == 1
\* largest header.seq of the envelopes given to the codec
MaxCodecSeq == 1
\* Thread objects start() may create in SpecThreads
MaxThreads == 2
\* inbound messages the listeners receive in SpecThreads
MaxInboundThreads == 1
\* inbound messages the listener receives in SpecBot
MaxInboundBot == 2

(***************************************************************************)
(* Values.                                                                 *)
(***************************************************************************)
Listener == 0
Callers == 1..NumCallers
\* the caller threads of Spec and SpecLifecycle
TwoCallers == {1, 2}
Threads == Callers \cup {Listener}
NoThread == -1

\* enums.py: Side, OrdType, TimeInForce members, and Python's None
BUY == "BUY"
SELL == "SELL"
MARKET == "MARKET"
LIMIT == "LIMIT"
DAY == "DAY"
IOC == "IOC"
None == "None"

\* enums.py: MsgType values
NEW_ORDER == 1
CANCEL == 2
ACK == 100
REJECT == 101
FILL == 102
HEARTBEAT == 900
MsgTypeValues == {NEW_ORDER, CANCEL, ACK, REJECT, FILL, HEARTBEAT}

\* ExchangeClient.__init__: the client_id the client was built with
client_id == 7

Symbols == {"AAPL", "MSFT"}

\* what callers pass to send_limit_order and send_market_order
LimitOrderInputs ==
    { [symbol |-> "AAPL", side |-> BUY, qty |-> 1, price |-> 10, tif |-> IOC] }
MarketOrderInputs ==
    { [symbol |-> "MSFT", side |-> SELL, qty |-> 2] }
\* client_order_ids a caller may pass to cancel_order and get_order_id
ClientIds == {1, 2}

VARIABLES
    lock,            \* _lock: the thread holding it, or NoThread
    next_order_id,   \* _next_order_id
    next_seq,        \* _next_seq
    pending_orders,  \* _pending_orders: client_order_id -> {symbol, side, qty}
    order_id_map,    \* _order_id_map, in insertion order: <<[cid, oid], ...>>
    callbacks,       \* _callbacks: MsgType -> observers in registration order
    running,         \* _running
    send_socket,     \* the messages sent on _send_socket, in order
    pc,              \* per thread: where it is inside a client call
    frame,           \* per thread: the locals of its call
    returns,         \* the values the submit calls have returned, in order
    lpc,             \* the listener's position in _listen_loop/_handle_message
    cur,             \* the decoded envelope the listener is handling
    idx,             \* index of the next observer in the dispatch loop
    delivered,       \* observers invoked for cur, in order
    polled,          \* inbound messages received so far
    dropped,         \* history: inbound messages dropped on a decode error
    acked,           \* history: [cid, oid, sent] of the processed Acks
    rejected,        \* history: [cid, sent] of the processed Rejects
    filled           \* history: [cid, sent] of the client ids mapped to the
                     \* venue id of a processed complete Fill
                     \* (sent: the NEW_ORDER of cid was on the send socket when
                     \* the Reject, or the Ack before the Fill, was processed)

VARIABLES
    snapshot,        \* the dict a caller keeps from get_pending_orders()
    aliased,         \* keys of snapshot whose entry is the very dict object
                     \* that _pending_orders still holds under that key
    positions,       \* Portfolio._positions: symbol -> Position fields
    trades,          \* Portfolio._trades
    last_return,     \* what the last Portfolio.update call returned
    upc,             \* the listener's position inside Position.update
    ulocal,          \* the locals of the Position.update call in progress
    seen             \* what a reading thread has read of a Position

VARIABLES
    codec,           \* an Envelope on its way through to_json and from_json
    listener_thread, \* _listener_thread: the Thread start() created last, or 0
    lthreads,        \* per Thread created by start(): where it is in _listen_loop
    ctl,             \* the thread calling connect/start/stop/disconnect: the
                     \* call it made last and where it is in it
    sockets_open     \* FALSE once disconnect() has closed the sockets

VARIABLES
    last_prices,     \* BaseBot._last_prices: symbol -> price
    bpc,             \* where the listener is inside _internal_on_fill
    blocal,          \* history: the portfolio as _internal_on_fill found it
    on_fill_seen     \* history: what the strategy's on_fill found when it was
                     \* invoked last

vars == << lock, next_order_id, next_seq, pending_orders, order_id_map,
           callbacks, running, send_socket, pc, frame, returns, lpc, cur,
           idx, delivered, polled, dropped, acked, rejected, filled,
           snapshot, aliased, positions, trades, last_return, upc, ulocal, seen,
           codec, listener_thread, lthreads, ctl, sockets_open,
           last_prices, bpc, blocal, on_fill_seen >>

snapshotVars == << snapshot, aliased >>
portfolioVars == << positions, trades, last_return >>
updateVars == << upc, ulocal, seen >>
codecVars == << codec >>
threadVars == << listener_thread, lthreads, ctl, sockets_open >>
fillVars == << last_prices, bpc, blocal, on_fill_seen >>
sessionVars == << codecVars, threadVars, fillVars >>
botVars == << snapshotVars, portfolioVars, updateVars, sessionVars >>

clientVars == << lock, next_order_id, next_seq, pending_orders, order_id_map,
                 callbacks, running, send_socket, pc, frame, returns, lpc, cur,
                 idx, delivered, polled, dropped, acked, rejected, filled >>

clientState == << next_order_id, next_seq, pending_orders, order_id_map >>
listenerVars == << lpc, cur, idx, delivered, polled, dropped, acked, rejected, filled >>

(***************************************************************************)
(* Python dict operations on the pending-order table (a function over the  *)
(* keys present) and on the order-id map (a sequence, because              *)
(* _handle_message iterates it in insertion order).                        *)
(***************************************************************************)
DictSet(d, k, v) == [c \in (DOMAIN d) \cup {k} |-> IF c = k THEN v ELSE d[c]]
DictPop(d, k) == [c \in (DOMAIN d) \ {k} |-> d[c]]

MapKeys(m) == { m[i].cid : i \in 1..Len(m) }
MapGet(m, k, default) ==
    IF k \in MapKeys(m)
    THEN (CHOOSE e \in { m[i] : i \in 1..Len(m) } : e.cid = k).oid
    ELSE default
MapSet(m, k, v) ==
    IF k \in MapKeys(m)
    THEN [i \in 1..Len(m) |-> IF m[i].cid = k THEN [cid |-> k, oid |-> v] ELSE m[i]]
    ELSE Append(m, [cid |-> k, oid |-> v])

EmptyFrame ==
    [op |-> "none", symbol |-> "", side |-> None, qty |-> 0, price |-> 0,
     ord_type |-> None, tif |-> None, cid |-> 0, seq |-> 0, order_id |-> 0]


(***************************************************************************)
(* The codec (messages.py).  A JSON object is a function over the keys it  *)
(* holds; JSON null is JsonNull; a JSON scalar that may be a string or a   *)
(* number is tagged [str |-> ..] or [int |-> ..].                          *)
(***************************************************************************)
JsonNull == [null |-> TRUE]
IsDict(v) == "null" \notin DOMAIN v
DictGet(d, k, default) == IF k \in DOMAIN d THEN d[k] ELSE default

\* Side.parse after code.upper(): the spellings it accepts, in either case
Side_parse(code) ==
    IF code \in {"B", "BUY", "BID", "b", "buy", "bid"} THEN BUY
    ELSE IF code \in {"S", "SELL", "ASK", "s", "sell", "ask"} THEN SELL
    ELSE "ValueError"

\* Side(value) on an integer
Side_of_int(n) == IF n = 1 THEN BUY ELSE IF n = 2 THEN SELL ELSE "ValueError"

Side_as_string(side) == IF side = BUY THEN "B" ELSE "S"
OrdType_as_string(t) == IF t = MARKET THEN "MKT" ELSE "LMT"
TimeInForce_as_string(t) == IF t = DAY THEN "DAY" ELSE "IOC"

\* MessageHeader.from_dict; "Error" when data["type"] is absent or no MsgType
MessageHeader_from_dict(data) ==
    IF "type" \notin DOMAIN data \/ data["type"] \notin MsgTypeValues
    THEN [error |-> TRUE]
    ELSE [version |-> DictGet(data, "version", 1),
          type |-> data["type"],
          seq |-> DictGet(data, "seq", 0),
          client_id |-> DictGet(data, "client_id", 0)]

MessageHeader_to_dict(h) ==
    [version |-> h.version, type |-> h.type, seq |-> h.seq, client_id |-> h.client_id]

Ack_from_dict(data) ==
    [kind |-> "Ack",
     client_order_id |-> DictGet(data, "client_order_id", 0),
     order_id |-> DictGet(data, "order_id", 0),
     symbol |-> DictGet(data, "symbol", "")]

Reject_from_dict(data) ==
    [kind |-> "Reject",
     client_order_id |-> DictGet(data, "client_order_id", 0),
     symbol |-> DictGet(data, "symbol", ""),
     info |-> IF "info" \in DOMAIN data
              THEN [reason |-> DictGet(data["info"], "reason", ""),
                    code |-> DictGet(data["info"], "code", 0)]
              ELSE [reason |-> "", code |-> 0]]

Fill_side(data) ==
    LET side_value == DictGet(data, "side", [str |-> "B"])
    IN  IF "str" \in DOMAIN side_value
        THEN Side_parse(side_value.str)
        ELSE Side_of_int(side_value.int)

Fill_from_dict(data) ==
    IF Fill_side(data) = "ValueError"
    THEN [kind |-> "Error"]
    ELSE [kind |-> "Fill",
          order_id |-> DictGet(data, "order_id", 0),
          symbol |-> DictGet(data, "symbol", ""),
          side |-> Fill_side(data),
          fill_qty |-> DictGet(data, "fill_qty", 0),
          fill_price |-> DictGet(data, "fill_price", 0),
          complete |-> DictGet(data, "complete", FALSE)]

\* NewOrderRequest.to_dict builds `result` and ends without returning it
NewOrderRequest_to_dict(body) == JsonNull

CancelRequest_to_dict(body) ==
    LET keys == (IF body.order_id # 0 THEN {"order_id"} ELSE {})
                \cup (IF body.client_order_id # 0 THEN {"client_order_id"} ELSE {})
                \cup (IF body.symbol # "" THEN {"symbol"} ELSE {})
    IN  [k \in keys |-> body[k]]

\* a body that is an instance of one of the dataclasses (not a plain dict)
IsDataclass(body) == "kind" \in DOMAIN body
\* line 198: hasattr(self.body, 'to_dict'); only the two request classes
\* define to_dict
HasToDict(body) ==
    IsDataclass(body) /\ body.kind \in {"NewOrderRequest", "CancelRequest"}

\* Envelope.to_json: the JSON text, as the document it denotes; json.dumps
\* raises TypeError on a body that is a dataclass instance without to_dict
Envelope_to_json(envelope) ==
    IF IsDataclass(envelope.body) /\ ~HasToDict(envelope.body)
    THEN [json |-> FALSE, raised |-> "TypeError"]
    ELSE [json |-> TRUE,
          doc |-> [header |-> MessageHeader_to_dict(envelope.header),
                   body |-> IF ~IsDataclass(envelope.body) THEN envelope.body
                            ELSE IF envelope.body.kind = "NewOrderRequest"
                            THEN NewOrderRequest_to_dict(envelope.body)
                            ELSE CancelRequest_to_dict(envelope.body)]]

\* Envelope.from_json: the envelope, or [kind |-> "Error"] when it raises
Envelope_from_json(json_string) ==
    IF ~json_string.json THEN [kind |-> "Error"]
    ELSE LET data == json_string.doc IN
         IF "header" \notin DOMAIN data THEN [kind |-> "Error"]
         ELSE LET header == MessageHeader_from_dict(data["header"]) IN
              IF "error" \in DOMAIN header THEN [kind |-> "Error"]
              ELSE IF "body" \notin DOMAIN data THEN [kind |-> "Error"]
              ELSE LET body_data == data["body"] IN
                   IF header.type \in {ACK, REJECT, FILL}
                   THEN IF ~IsDict(body_data) THEN [kind |-> "Error"]
                        ELSE LET body == IF header.type = ACK THEN Ack_from_dict(body_data)
                                         ELSE IF header.type = REJECT THEN Reject_from_dict(body_data)
                                         ELSE Fill_from_dict(body_data)
                             IN  IF body.kind = "Error" THEN [kind |-> "Error"]
                                 ELSE [kind |-> body.kind, header |-> header, body |-> body]
                   ELSE [kind |-> "dict", header |-> header, body |-> body_data]

create_new_order(cl, cid, symbol, side, qty, price, ord_type, tif, seq) ==
    [header |-> [version |-> 1, type |-> NEW_ORDER, seq |-> seq, client_id |-> cl],
     body |-> [kind |-> "NewOrderRequest", client_order_id |-> cid, symbol |-> symbol,
               side |-> side, ord_type |-> ord_type, qty |-> qty,
               limit_price |-> price, tif |-> tif]]

\* a cancel built with the two ids in each other's place
create_cancel_Swapped(cl, symbol, order_id, cid, seq) ==
    [header |-> [version |-> 1, type |-> CANCEL, seq |-> seq, client_id |-> cl],
     body |-> [kind |-> "CancelRequest", symbol |-> symbol, order_id |-> cid,
               client_order_id |-> order_id]]

create_cancel(cl, symbol, order_id, cid, seq) ==
    [header |-> [version |-> 1, type |-> CANCEL, seq |-> seq, client_id |-> cl],
     body |-> [kind |-> "CancelRequest", symbol |-> symbol, order_id |-> order_id,
               client_order_id |-> cid]]

(***************************************************************************)
(* What the venue may put on the inbound channel.                          *)
(***************************************************************************)
Wire(type, body) ==
    [json |-> TRUE,
     doc |-> [header |-> [version |-> 1, type |-> type, seq |-> 0, client_id |-> client_id],
              body |-> body]]

Ack_wire(c, v) == Wire(ACK, [client_order_id |-> c, order_id |-> v, symbol |-> "AAPL"])
Reject_wire(c) ==
    Wire(REJECT, [client_order_id |-> c, symbol |-> "AAPL",
                  info |-> [reason |-> "no", code |-> 3]])
Fill_wire(v, complete) ==
    Wire(FILL, [order_id |-> v, symbol |-> "AAPL", side |-> [str |-> "s"],
                fill_qty |-> 1, fill_price |-> 10, complete |-> complete])

InboundAcks == { Ack_wire(1, 1), Ack_wire(2, 1), Ack_wire(2, 2) }
InboundRejects == { Reject_wire(1) }
InboundFills == { Fill_wire(1, TRUE), Fill_wire(1, FALSE), Fill_wire(2, TRUE) }
\* malformed JSON, no header, no body, an undefined type code, an invalid Side
\* code, a null body
InboundUndecodable ==
    { [json |-> FALSE],
      [json |-> TRUE, doc |-> [body |-> [client_order_id |-> 1]]],
      [json |-> TRUE, doc |-> [header |-> [type |-> REJECT]]],
      Wire(7, [client_order_id |-> 1]),
      Wire(FILL, [order_id |-> 1, side |-> [str |-> "X"], complete |-> TRUE]),
      Wire(ACK, JsonNull) }
InboundOther == { Wire(HEARTBEAT, [client_order_id |-> 1]) }
InboundTyped == InboundAcks \cup InboundRejects \cup InboundFills
InboundWire ==
    { Ack_wire(1, 1), Ack_wire(2, 1), Reject_wire(1), Fill_wire(1, TRUE),
      Fill_wire(1, FALSE) }
    \cup InboundUndecodable \cup InboundOther

\* messages about orders the client may not know (any more): a Reject for
\* the first or the second order, complete Fills for two venue ids, one Ack
InboundLate ==
    { Ack_wire(1, 1), Reject_wire(1), Reject_wire(2), Fill_wire(1, TRUE),
      Fill_wire(2, TRUE) }

NoEnvelope == [kind |-> "none"]
\* no dict has been returned by get_pending_orders() yet
NoSnapshot == [taken |-> FALSE, dict |-> << >>]
\* 0.0
Zero == [num |-> 0, den |-> 1]
\* no Portfolio call has returned yet
NoReturn == [op |-> "none"]
\* no Position.update call is in progress
NoUpdate == [symbol |-> ""]
\* nothing has been read yet
NoRead == [symbol |-> ""]
\* no Envelope is being encoded or decoded
NoCodec == [stage |-> "none"]
\* _internal_on_fill has not been entered yet
NoFillLocals == [serial |-> 0]
\* on_fill has not been invoked yet
NoOnFill == [serial |-> 0]
\* the controlling thread has called nothing yet
NoCall == [op |-> "none", at |-> "returned"]
CallbackTypes == {ACK, REJECT, FILL}
\* the _callbacks key _handle_message uses for a body
CbType(envelope) ==
    IF envelope.kind = "Ack" THEN ACK
    ELSE IF envelope.kind = "Reject" THEN REJECT ELSE FILL

NumObservers == Len(callbacks[ACK]) + Len(callbacks[REJECT]) + Len(callbacks[FILL])

(***************************************************************************)
(* State after ExchangeClient.__init__ and connect().                      *)
(***************************************************************************)
Init ==
    /\ lock = NoThread
    /\ next_order_id = 1
    /\ next_seq = 1
    /\ pending_orders = << >>
    /\ order_id_map = << >>
    /\ callbacks = [ty \in CallbackTypes |-> << >>]
    /\ running = FALSE
    /\ send_socket = << >>
    /\ pc = [t \in Threads |-> "idle"]
    /\ frame = [t \in Threads |-> EmptyFrame]
    /\ returns = {}
    /\ lpc = "off"
    /\ cur = NoEnvelope
    /\ idx = 1
    /\ delivered = << >>
    /\ polled = 0
    /\ dropped = 0
    /\ acked = {}
    /\ rejected = {}
    /\ filled = {}
    /\ snapshot = NoSnapshot
    /\ aliased = {}
    /\ positions = << >>
    /\ trades = << >>
    /\ last_return = NoReturn
    /\ upc = "idle"
    /\ ulocal = NoUpdate
    /\ seen = NoRead
    /\ codec = NoCodec
    /\ listener_thread = 0
    /\ lthreads = << >>
    /\ ctl = NoCall
    /\ sockets_open = TRUE
    /\ last_prices = << >>
    /\ bpc = "idle"
    /\ blocal = NoFillLocals
    /\ on_fill_seen = NoOnFill

(***************************************************************************)
(* Calls into the client, by a caller thread or by an observer running on  *)
(* the listener thread (at most one call per observer invocation).         *)
(***************************************************************************)
MayCall(t) ==
    /\ pc[t] = "idle"
    /\ t = Listener => (lpc = "in_cb" /\ frame[Listener].op = "none")

\* `with self._lock:` around a block that is one step
WithLock == lock = NoThread /\ UNCHANGED lock

\* a counter whose `+= 1` was left out
Incremented_Omitted(n) == n

\* the value of a counter after `+= 1`
Incremented(n) == n + 1

IsSubmit(f) == f.op \in {"send_limit_order", "send_market_order"}

\* client_order_ids whose NEW_ORDER has been put on the send socket
SentIds ==
    { r.cid : r \in returns }
    \cup { frame[t].cid : t \in { u \in Threads : pc[u] = "register" /\ IsSubmit(frame[u]) } }

\* lines 70-74 / 80-84: allocate client_order_id and seq under the lock
SubmitAlloc(t, f) ==
    /\ MayCall(t)
    /\ next_seq <= MaxSeq
    /\ WithLock
    /\ frame' = [frame EXCEPT ![t] = [f EXCEPT !.cid = next_order_id, !.seq = next_seq]]
    /\ next_order_id' = Incremented(next_order_id)
    /\ next_seq' = Incremented(next_seq)
    /\ pc' = [pc EXCEPT ![t] = "send"]
    /\ UNCHANGED << pending_orders, order_id_map, callbacks, running, send_socket,
                    returns, listenerVars >>
    /\ UNCHANGED botVars

\* send_limit_order, lines 69-74
send_limit_order(t, in) ==
    SubmitAlloc(t, [EmptyFrame EXCEPT !.op = "send_limit_order", !.symbol = in.symbol,
                       !.side = in.side, !.qty = in.qty, !.price = in.price,
                       !.ord_type = LIMIT, !.tif = in.tif])

\* send_market_order, lines 79-84
send_market_order(t, in) ==
    SubmitAlloc(t, [EmptyFrame EXCEPT !.op = "send_market_order", !.symbol = in.symbol,
                       !.side = in.side, !.qty = in.qty, !.price = 0,
                       !.ord_type = MARKET, !.tif = DAY])

\* cancel_order, lines 89-93: resolve the venue id and allocate seq under the lock
cancel_order(t, symbol, c) ==
    /\ MayCall(t)
    /\ next_seq <= MaxSeq
    /\ WithLock
    /\ frame' = [frame EXCEPT ![t] =
                   [EmptyFrame EXCEPT !.op = "cancel_order", !.symbol = symbol, !.cid = c,
                       !.order_id = MapGet(order_id_map, c, 0), !.seq = next_seq]]
    /\ next_seq' = Incremented(next_seq)
    /\ pc' = [pc EXCEPT ![t] = "send"]
    /\ UNCHANGED << next_order_id, pending_orders, order_id_map, callbacks, running,
                    send_socket, returns, listenerVars >>
    /\ UNCHANGED botVars

\* lines 75 / 85 / 94: the envelope built from the call's locals
EnvelopeOf(f) ==
    IF f.op = "cancel_order"
    THEN create_cancel(client_id, f.symbol, f.order_id, f.cid, f.seq)
    ELSE create_new_order(client_id, f.cid, f.symbol, f.side, f.qty, f.price,
                          f.ord_type, f.tif, f.seq)

\* send_order, line 61: hasattr(envelope.body, 'client_order_id')
HasClientOrderId(body) == body.kind \in {"NewOrderRequest", "CancelRequest"}

\* send_order, lines 63-67: the entry written, with getattr's defaults
PendingEntry(body) ==
    [symbol |-> body.symbol,
     side |-> IF body.kind = "NewOrderRequest" THEN body.side ELSE None,
     qty |-> IF body.kind = "NewOrderRequest" THEN body.qty ELSE 0]

\* send_order, line 60: send_string(envelope.to_json())
SendOrderSend(t) ==
    /\ pc[t] = "send"
    /\ send_socket' = Append(send_socket, Envelope_to_json(EnvelopeOf(frame[t])))
    /\ pc' = [pc EXCEPT ![t] = "register"]
    /\ UNCHANGED << lock, clientState, callbacks, running, frame, returns, listenerVars >>
    /\ UNCHANGED botVars

\* the locals of a thread whose call has returned
FrameAfterReturn(t) == IF t = Listener THEN [EmptyFrame EXCEPT !.op = "returned"]
                       ELSE EmptyFrame

\* send_order, lines 61-67, then the return of the call (lines 77 / 87 / 95)
SendOrderRegister(t) ==
    /\ pc[t] = "register"
    /\ WithLock
    /\ LET body == EnvelopeOf(frame[t]).body IN
       pending_orders' =
         IF HasClientOrderId(body)
         THEN DictSet(pending_orders, body.client_order_id, PendingEntry(body))
         ELSE pending_orders
    /\ returns' = IF IsSubmit(frame[t])
                  THEN returns \cup { [cid |-> frame[t].cid, seq |-> frame[t].seq,
                                       symbol |-> frame[t].symbol, side |-> frame[t].side,
                                       qty |-> frame[t].qty] }
                  ELSE returns
    /\ pc' = [pc EXCEPT ![t] = "idle"]
    /\ frame' = [frame EXCEPT ![t] = FrameAfterReturn(t)]
    /\ UNCHANGED << next_order_id, next_seq, order_id_map, callbacks, running,
                    send_socket, listenerVars >>
    /\ aliased' = IF HasClientOrderId(EnvelopeOf(frame[t]).body)
                  THEN aliased \ {EnvelopeOf(frame[t]).body.client_order_id}
                  ELSE aliased
    /\ UNCHANGED << snapshot, portfolioVars, updateVars, sessionVars >>

\* get_pending_orders, lines 140-142: copy under the lock and return
get_pending_orders(t) ==
    /\ MayCall(t)
    /\ WithLock
    /\ frame' = [frame EXCEPT ![t] = FrameAfterReturn(t)]
    /\ UNCHANGED << clientState, callbacks, running, send_socket, pc, returns,
                    listenerVars >>
    /\ UNCHANGED botVars

\* snap = get_pending_orders(), lines 140-142, by a caller that keeps the
\* result: dict(self._pending_orders) is a new dict whose values are the
\* entry dicts of the table themselves
get_pending_orders_kept(t) ==
    /\ MayCall(t)
    /\ WithLock
    /\ snapshot' = [taken |-> TRUE, dict |-> pending_orders]
    /\ aliased' = DOMAIN pending_orders
    /\ frame' = [frame EXCEPT ![t] = FrameAfterReturn(t)]
    /\ UNCHANGED << clientState, callbacks, running, send_socket, pc, returns,
                    listenerVars, portfolioVars, updateVars, sessionVars >>

\* what a caller writes into the dict it was given
SnapshotQtys == {99}
SnapshotEntries == { [symbol |-> "MSFT", side |-> SELL, qty |-> 5] }

\* del snap[k]: the key leaves the caller's dict
SnapshotDelete(k) ==
    /\ snapshot.taken
    /\ k \in DOMAIN snapshot.dict
    /\ snapshot' = [snapshot EXCEPT !.dict = DictPop(@, k)]
    /\ aliased' = aliased \ {k}
    /\ UNCHANGED << lock, clientState, callbacks, running, send_socket, pc, frame,
                    returns, listenerVars, portfolioVars, updateVars, sessionVars >>

\* snap[k] = entry: a new entry dict under k in the caller's dict
SnapshotAdd(k, entry) ==
    /\ snapshot.taken
    /\ k \notin DOMAIN snapshot.dict
    /\ snapshot' = [snapshot EXCEPT !.dict = DictSet(@, k, entry)]
    /\ aliased' = aliased \ {k}
    /\ UNCHANGED << lock, clientState, callbacks, running, send_socket, pc, frame,
                    returns, listenerVars, portfolioVars, updateVars, sessionVars >>

\* snap[k]["qty"] = q: the entry dict under k is written; when it is the
\* object the table holds under k, the table's entry is written
SnapshotSetQty(k, q) ==
    /\ snapshot.taken
    /\ k \in DOMAIN snapshot.dict
    /\ snapshot.dict[k].qty # q
    /\ snapshot' = [snapshot EXCEPT !.dict[k].qty = q]
    /\ pending_orders' = IF k \in aliased
                         THEN [pending_orders EXCEPT ![k].qty = q]
                         ELSE pending_orders
    /\ UNCHANGED << lock, next_order_id, next_seq, order_id_map, callbacks, running,
                    send_socket, pc, frame, returns, listenerVars, aliased,
                    portfolioVars, updateVars, sessionVars >>

\* get_order_id, lines 144-146: look up under the lock and return
get_order_id(t, c) ==
    /\ MayCall(t)
    /\ WithLock
    /\ frame' = [frame EXCEPT ![t] = FrameAfterReturn(t)]
    /\ UNCHANGED << clientState, callbacks, running, send_socket, pc, returns,
                    listenerVars >>
    /\ UNCHANGED botVars

(***************************************************************************)
(* Observer registration and the listener.  Observers are registered       *)
(* before start(), as BaseBot.__init__ does; an observer is named by the   *)
(* order of its registration.                                              *)
(***************************************************************************)
Register(ty) ==
    /\ ~running
    /\ NumObservers < MaxObservers
    /\ callbacks' = [callbacks EXCEPT ![ty] = Append(@, NumObservers + 1)]
    /\ UNCHANGED << lock, clientState, running, send_socket, pc, frame, returns,
                    listenerVars >>
    /\ UNCHANGED botVars

on_ack == Register(ACK)
on_reject == Register(REJECT)
on_fill == Register(FILL)

\* start, lines 48-52
start ==
    /\ ~running
    /\ running' = TRUE
    /\ lpc' = "poll"
    /\ UNCHANGED << lock, clientState, callbacks, send_socket, pc, frame, returns,
                    cur, idx, delivered, polled, dropped, acked, rejected, filled >>
    /\ UNCHANGED botVars

\* _listen_loop, lines 98-101, and _handle_message, line 108: a message has
\* arrived, is received and decoded
Poll(json_string, bound) ==
    /\ running
    /\ lpc = "poll"
    /\ polled < bound
    /\ polled' = polled + 1
    /\ cur' = Envelope_from_json(json_string)
    /\ lpc' = "handle"
    /\ UNCHANGED << lock, clientState, callbacks, running, send_socket, pc, frame,
                    returns, idx, delivered, dropped, acked, rejected, filled >>
    /\ UNCHANGED botVars

\* the listener is back at the head of its loop
BackToPoll ==
    /\ lpc' = "poll"
    /\ cur' = NoEnvelope
    /\ idx' = 1
    /\ delivered' = << >>

\* a handler without `except Exception`: the error ends the listener thread
HandleDecodeError_Fatal ==
    /\ lpc = "handle"
    /\ cur.kind = "Error"
    /\ lpc' = "off"
    /\ cur' = NoEnvelope
    /\ UNCHANGED << lock, clientState, callbacks, running, send_socket, pc, frame,
                    returns, idx, delivered, polled, dropped, acked, rejected, filled >>
    /\ UNCHANGED botVars

\* lines 128-129: from_json raised; the message is logged and dropped
HandleDecodeError ==
    /\ lpc = "handle"
    /\ cur.kind = "Error"
    /\ BackToPoll
    /\ dropped' = dropped + 1
    /\ UNCHANGED << lock, clientState, callbacks, running, send_socket, pc, frame,
                    returns, polled, acked, rejected, filled >>
    /\ UNCHANGED botVars

\* lines 109-119: the body is a plain dict, no isinstance branch is taken
HandleOther ==
    /\ lpc = "handle"
    /\ cur.kind = "dict"
    /\ BackToPoll
    /\ UNCHANGED << lock, clientState, callbacks, running, send_socket, pc, frame,
                    returns, polled, dropped, acked, rejected, filled >>
    /\ UNCHANGED botVars

\* a handler that ignores the `complete` flag
FillRemoves_Always(body) == TRUE

\* line 120: whether a Fill makes the handler touch the pending table
FillRemoves(body) == body.complete

NeedsUpdate(envelope) ==
    \/ envelope.kind \in {"Ack", "Reject"}
    \/ envelope.kind = "Fill" /\ FillRemoves(envelope.body)

\* lines 110 / 115 / 121: enter `with self._lock`
HandleAcquire ==
    /\ lpc = "handle"
    /\ NeedsUpdate(cur)
    /\ lock = NoThread
    /\ lock' = Listener
    /\ lpc' = "update"
    /\ UNCHANGED << clientState, callbacks, running, send_socket, pc, frame, returns,
                    cur, idx, delivered, polled, dropped, acked, rejected, filled >>
    /\ UNCHANGED botVars

\* lines 122-125: the first client_order_id, in insertion order, mapped to oid
FirstMatch(m, oid) ==
    LET hits == { i \in 1..Len(m) : m[i].oid = oid }
    IN  IF hits = {} THEN {}
        ELSE { m[CHOOSE i \in hits : \A j \in hits : i <= j].cid }

\* an Ack that replaces the map by the one entry it carries
AckUpdate_Clobber(m, body) ==
    << [cid |-> body.client_order_id, oid |-> body.order_id] >>

\* line 111
AckUpdate(m, body) == MapSet(m, body.client_order_id, body.order_id)
\* a Reject that empties the table
RejectUpdate_Clear(p, body) == << >>

\* line 116
RejectUpdate(p, body) == DictPop(p, body.client_order_id)
\* lines 122-125
FillUpdate(p, m, body) ==
    IF FirstMatch(m, body.order_id) = {} THEN p
    ELSE DictPop(p, CHOOSE c \in FirstMatch(m, body.order_id) : TRUE)

\* a handler that drops the venue id of an order once the order is rejected
\* or completely filled
MapAfterTerminal_Forget(m, envelope) ==
    LET gone == IF envelope.kind = "Reject" THEN {envelope.body.client_order_id}
                ELSE FirstMatch(m, envelope.body.order_id)
    IN  SelectSeq(m, LAMBDA e : e.cid \notin gone)

\* lines 114-125: the Reject and Fill branches do not assign _order_id_map
MapAfterTerminal(m, envelope) == m

\* the observer loop placed inside the `with self._lock:` block
LockAtDispatch_Held == Listener

\* the lock when the handler leaves its `with self._lock:` block and enters
\* the observer loop (lines 112 / 117 / 126)
LockAtDispatch == NoThread

\* lines 111 / 116 / 122-125: the state update, under the lock
HandleUpdate ==
    /\ lpc = "update"
    /\ order_id_map' = IF cur.kind = "Ack" THEN AckUpdate(order_id_map, cur.body)
                       ELSE MapAfterTerminal(order_id_map, cur)
    /\ pending_orders' =
         IF cur.kind = "Reject" THEN RejectUpdate(pending_orders, cur.body)
         ELSE IF cur.kind = "Fill" THEN FillUpdate(pending_orders, order_id_map, cur.body)
         ELSE pending_orders
    /\ acked' = IF cur.kind = "Ack"
                THEN acked \cup { [cid |-> cur.body.client_order_id,
                                   oid |-> cur.body.order_id,
                                   sent |-> cur.body.client_order_id \in SentIds] }
                ELSE acked
    /\ rejected' = IF cur.kind = "Reject"
                   THEN rejected \cup { [cid |-> cur.body.client_order_id,
                                         sent |-> cur.body.client_order_id \in SentIds] }
                   ELSE rejected
    /\ filled' = IF cur.kind = "Fill"
                 THEN filled \cup
                      { [cid |-> c,
                         sent |-> [cid |-> c, oid |-> cur.body.order_id, sent |-> TRUE]
                                    \in acked] :
                        c \in { k \in MapKeys(order_id_map) :
                                  MapGet(order_id_map, k, 0) = cur.body.order_id } }
                 ELSE filled
    /\ lock' = LockAtDispatch
    /\ lpc' = "dispatch"
    /\ idx' = 1
    /\ UNCHANGED << next_order_id, next_seq, callbacks, running, send_socket, pc, frame,
                    returns, cur, delivered, polled, dropped >>
    /\ aliased' = aliased \cap DOMAIN pending_orders'
    /\ UNCHANGED << snapshot, portfolioVars, updateVars, sessionVars >>

\* lines 119-120, 126: a Fill with complete false goes straight to the observers
HandlePartialFill ==
    /\ lpc = "handle"
    /\ cur.kind = "Fill"
    /\ ~NeedsUpdate(cur)
    /\ lpc' = "dispatch"
    /\ idx' = 1
    /\ UNCHANGED << lock, clientState, callbacks, running, send_socket, pc, frame,
                    returns, cur, delivered, polled, dropped, acked, rejected, filled >>
    /\ UNCHANGED botVars

\* lines 112-113 / 117-118 / 126-127: cb(envelope.body) for the next observer
Deliver ==
    /\ lpc = "dispatch"
    /\ idx <= Len(callbacks[CbType(cur)])
    /\ delivered' = Append(delivered, callbacks[CbType(cur)][idx])
    /\ lpc' = "in_cb"
    /\ frame' = [frame EXCEPT ![Listener] = EmptyFrame]
    /\ UNCHANGED << lock, clientState, callbacks, running, send_socket, pc, returns,
                    cur, idx, polled, dropped, acked, rejected, filled >>
    /\ UNCHANGED botVars

\* the observer returns; the loop goes on with the next one
ObserverReturn ==
    /\ lpc = "in_cb"
    /\ pc[Listener] = "idle"
    /\ idx' = idx + 1
    /\ lpc' = "dispatch"
    /\ frame' = [frame EXCEPT ![Listener] = EmptyFrame]
    /\ UNCHANGED << lock, clientState, callbacks, running, send_socket, pc, returns,
                    cur, delivered, polled, dropped, acked, rejected, filled >>
    /\ UNCHANGED botVars

\* the observer raises: the exception leaves the for loop and is caught by
\* the handler's `except Exception` (lines 128-129)
ObserverRaise ==
    /\ lpc = "in_cb"
    /\ pc[Listener] = "idle"
    /\ BackToPoll
    /\ frame' = [frame EXCEPT ![Listener] = EmptyFrame]
    /\ UNCHANGED << lock, clientState, callbacks, running, send_socket, pc, returns,
                    polled, dropped, acked, rejected, filled >>
    /\ UNCHANGED botVars

\* the for loop is exhausted; _handle_message returns
DispatchDone ==
    /\ lpc = "dispatch"
    /\ idx > Len(callbacks[CbType(cur)])
    /\ BackToPoll
    /\ UNCHANGED << lock, clientState, callbacks, running, send_socket, pc, frame,
                    returns, polled, dropped, acked, rejected, filled >>
    /\ UNCHANGED botVars

\* what callers pass to cancel_order
CancelInputs == {"MSFT"} \X ClientIds

(***************************************************************************)
(* SpecSubmit: NumCallers caller threads submit and cancel concurrently.   *)
(***************************************************************************)
NextSubmit ==
    \E t \in Callers :
         \/ \E in \in LimitOrderInputs : send_limit_order(t, in)
         \/ \E in \in MarketOrderInputs : send_market_order(t, in)
         \/ \E in \in CancelInputs : cancel_order(t, in[1], in[2])
         \/ SendOrderSend(t)
         \/ SendOrderRegister(t)

SpecSubmit == Init /\ [][NextSubmit]_vars

(***************************************************************************)
(* Spec: two caller threads submit and cancel while the listener handles   *)
(* the venue's Acks, Rejects and Fills (no observer is registered).        *)
(***************************************************************************)
Next ==
    \/ \E t \in TwoCallers :
         \/ \E in \in LimitOrderInputs : send_limit_order(t, in)
         \/ \E in \in MarketOrderInputs : send_market_order(t, in)
         \/ \E in \in CancelInputs : cancel_order(t, in[1], in[2])
         \/ SendOrderSend(t)
         \/ SendOrderRegister(t)
    \/ start
    \/ \E json_string \in InboundTyped : Poll(json_string, MaxInbound)
    \/ HandleAcquire
    \/ HandleUpdate
    \/ HandlePartialFill
    \/ DispatchDone

Spec == Init /\ [][Next]_vars

(***************************************************************************)
(* SpecLifecycle: as Spec, with room for an Ack and a Fill.                *)
(***************************************************************************)
NextLifecycle ==
    \/ \E t \in TwoCallers :
         \/ \E in \in LimitOrderInputs : send_limit_order(t, in)
         \/ \E in \in MarketOrderInputs : send_market_order(t, in)
         \/ \E in \in CancelInputs : cancel_order(t, in[1], in[2])
         \/ SendOrderSend(t)
         \/ SendOrderRegister(t)
    \/ start
    \/ \E json_string \in InboundTyped : Poll(json_string, MaxInboundLifecycle)
    \/ HandleAcquire
    \/ HandleUpdate
    \/ HandlePartialFill
    \/ DispatchDone

SpecLifecycle == Init /\ [][NextLifecycle]_vars

(***************************************************************************)
(* SpecInbound: one caller thread submits and cancels while the listener   *)
(* handles late, repeated and unmatched Acks, Rejects and Fills.           *)
(***************************************************************************)
NextInbound ==
    \/ \E in \in LimitOrderInputs : send_limit_order(1, in)
    \/ \E in \in MarketOrderInputs : send_market_order(1, in)
    \/ \E in \in CancelInputs : cancel_order(1, in[1], in[2])
    \/ SendOrderSend(1)
    \/ SendOrderRegister(1)
    \/ start
    \/ \E json_string \in InboundLate : Poll(json_string, MaxInboundLate)
    \/ HandleAcquire
    \/ HandleUpdate
    \/ DispatchDone

SpecInbound == Init /\ [][NextInbound]_vars

(***************************************************************************)
(* SpecSnapshot: a caller thread submits, cancels, keeps the dict returned *)
(* by get_pending_orders() and writes into it, while the listener handles  *)
(* Rejects.                                                                *)
(***************************************************************************)
NextSnapshot ==
    \/ \E in \in LimitOrderInputs : send_limit_order(1, in)
    \/ \E in \in CancelInputs : cancel_order(1, in[1], in[2])
    \/ SendOrderSend(1)
    \/ SendOrderRegister(1)
    \/ get_pending_orders_kept(1)
    \/ \E k \in ClientIds : SnapshotDelete(k)
    \/ \E k \in ClientIds, entry \in SnapshotEntries : SnapshotAdd(k, entry)
    \/ \E k \in ClientIds, q \in SnapshotQtys : SnapshotSetQty(k, q)
    \/ start
    \/ \E json_string \in InboundRejects : Poll(json_string, MaxInbound)
    \/ HandleAcquire
    \/ HandleUpdate
    \/ DispatchDone

SpecSnapshot == Init /\ [][NextSnapshot]_vars

(***************************************************************************)
(* SpecDispatch: observers are registered, the listener handles every kind *)
(* of inbound message and runs the observers, which call back into the     *)
(* client on the listener thread.                                          *)
(***************************************************************************)
NextDispatch ==
    \/ on_ack
    \/ on_reject
    \/ on_fill
    \/ start
    \/ \E json_string \in InboundWire : Poll(json_string, MaxInboundDispatch)
    \/ HandleDecodeError
    \/ HandleOther
    \/ HandleAcquire
    \/ HandleUpdate
    \/ HandlePartialFill
    \/ Deliver
    \/ ObserverReturn
    \/ ObserverRaise
    \/ DispatchDone
    \/ \E in \in MarketOrderInputs : send_market_order(Listener, in)
    \/ \E in \in CancelInputs : cancel_order(Listener, in[1], in[2])
    \/ SendOrderSend(Listener)
    \/ SendOrderRegister(Listener)
    \/ get_pending_orders(Listener)
    \/ \E c \in ClientIds : get_order_id(Listener, c)

SpecDispatch == Init /\ [][NextDispatch]_vars

(***************************************************************************)
(* position.py.  Python floats are modelled as exact rationals num/den in  *)
(* lowest terms (rounding is not modelled); quantities and prices are      *)
(* integers, as Fill carries them.                                         *)
(***************************************************************************)
Abs(n) == IF n < 0 THEN -n ELSE n
Min(a, b) == IF a <= b THEN a ELSE b

RECURSIVE GCD(_, _)
GCD(a, b) == IF b = 0 THEN a ELSE GCD(b, a % b)

\* num/den, den > 0, in lowest terms
Rat(num, den) ==
    LET g == GCD(Abs(num), den)
    IN  [num |-> num \div g, den |-> den \div g]
\* float(n)
RatOfInt(n) == [num |-> n, den |-> 1]
RatAdd(x, y) == Rat(x.num * y.den + y.num * x.den, x.den * y.den)
RatSub(x, y) == Rat(x.num * y.den - y.num * x.den, x.den * y.den)
\* n * x, n an int
RatMulInt(n, x) == Rat(n * x.num, x.den)
\* x / n, n a positive int
RatDivInt(x, n) == Rat(x.num, x.den * n)

\* Position(symbol=symbol): lines 26-28
NewPosition == [quantity |-> 0, avg_cost |-> Zero, realized_pnl |-> Zero]

\* line 32
\* a signed quantity that ignores the side
signed_qty_Unsigned(side, fill_qty) == fill_qty

\* line 32
signed_qty(side, fill_qty) == IF side = BUY THEN fill_qty ELSE -fill_qty

\* a test that never takes the adding branch
SameDirection_Never(quantity, sq) == FALSE

\* line 37: the fill adds to the position
SameDirection(quantity, sq) == (quantity > 0 /\ sq > 0) \/ (quantity < 0 /\ sq < 0)

\* an average that forgets the cost of the shares already held
WeightedAvg_FillOnly(old_value, new_value, quantity) ==
    RatDivInt(new_value, Abs(quantity))

\* line 41, with quantity already updated
WeightedAvg(old_value, new_value, quantity) ==
    RatDivInt(RatAdd(old_value, new_value), Abs(quantity))

\* a closing quantity not capped by the position
close_qty_Uncapped(fill_qty, quantity) == fill_qty

\* line 43
close_qty(fill_qty, quantity) == Min(fill_qty, Abs(quantity))

\* lines 44-47
RealizedOnClose(quantity, avg_cost, fill_qty, fill_price) ==
    IF quantity > 0
    THEN RatMulInt(close_qty(fill_qty, quantity), RatSub(RatOfInt(fill_price), avg_cost))
    ELSE RatMulInt(close_qty(fill_qty, quantity), RatSub(avg_cost, RatOfInt(fill_price)))

\* a test that never sees the sign change
Flipped_Never(old_quantity, quantity) == FALSE

\* line 51: the position changed sign
Flipped(old_quantity, quantity) ==
    quantity # 0 /\ ((old_quantity > 0 /\ quantity < 0) \/ (old_quantity < 0 /\ quantity > 0))

\* which branch of Position.update a fill takes (lines 34, 37, 42)
Branch(p, side, fill_qty) ==
    IF p.quantity = 0 THEN "open"
    ELSE IF SameDirection(p.quantity, signed_qty(side, fill_qty)) THEN "add"
    ELSE "close"

\* Position.update, lines 30-55: the fields after the call and the value
\* returned
Position_update(p, side, fill_qty, fill_price) ==
    LET sq == signed_qty(side, fill_qty)
        b == Branch(p, side, fill_qty)
    IN  IF b = "open"
        THEN [position |-> [p EXCEPT !.quantity = sq, !.avg_cost = RatOfInt(fill_price)],
              realized |-> Zero]
        ELSE IF b = "add"
        THEN [position |->
                [p EXCEPT !.quantity = p.quantity + sq,
                          !.avg_cost = WeightedAvg(RatMulInt(Abs(p.quantity), p.avg_cost),
                                                   RatOfInt(fill_qty * fill_price),
                                                   p.quantity + sq)],
              realized |-> Zero]
        ELSE LET realized == RealizedOnClose(p.quantity, p.avg_cost, fill_qty, fill_price)
                 quantity == p.quantity + sq
             IN  [position |->
                    [quantity |-> quantity,
                     avg_cost |-> IF Flipped(p.quantity, quantity) THEN RatOfInt(fill_price)
                                  ELSE IF quantity = 0 THEN Zero
                                  ELSE p.avg_cost,
                     realized_pnl |-> RatAdd(p.realized_pnl, realized)],
                  realized |-> realized]

\* Position.unrealized_pnl, lines 57-62
unrealized_pnl(p, current_price) ==
    IF p.quantity = 0 THEN Zero
    ELSE IF p.quantity > 0
         THEN RatMulInt(p.quantity, RatSub(RatOfInt(current_price), p.avg_cost))
         ELSE RatMulInt(Abs(p.quantity), RatSub(p.avg_cost, RatOfInt(current_price)))

\* Position.total_pnl, lines 64-65
total_pnl(p, current_price) == RatAdd(p.realized_pnl, unrealized_pnl(p, current_price))

\* a lookup that replaces the ledger by a new one on every reference
WithPosition_Fresh(ps, symbol) == DictSet(ps, symbol, NewPosition)

\* Portfolio.get_position, lines 75-78: the ledgers after the call
WithPosition(ps, symbol) ==
    IF symbol \in DOMAIN ps THEN ps ELSE DictSet(ps, symbol, NewPosition)

\* Portfolio.get_quantity, lines 86-87
get_quantity(ps, symbol) == IF symbol \in DOMAIN ps THEN ps[symbol].quantity ELSE 0

\* a total that stops after the first ledger
SumRealized_First(ps, S) ==
    IF S = {} THEN Zero ELSE ps[CHOOSE x \in S : TRUE].realized_pnl

\* sum(p.realized_pnl for p in ...) over the ledgers of the symbols in S
RECURSIVE SumRealized(_, _)
SumRealized(ps, S) ==
    IF S = {} THEN Zero
    ELSE LET x == CHOOSE x \in S : TRUE
         IN  RatAdd(ps[x].realized_pnl, SumRealized(ps, S \ {x}))

\* Portfolio.total_realized_pnl, lines 95-96
total_realized_pnl(ps) == SumRealized(ps, DOMAIN ps)

\* a filter that leaves short positions out
Contributes_LongOnly(ps, x, prices) == ps[x].quantity > 0 /\ x \in DOMAIN prices

\* line 99: `if p.quantity != 0 and s in prices`
Contributes(ps, x, prices) == ps[x].quantity # 0 /\ x \in DOMAIN prices

RECURSIVE SumUnrealized(_, _, _)
SumUnrealized(ps, prices, S) ==
    IF S = {} THEN Zero
    ELSE LET x == CHOOSE x \in S : TRUE
         IN  RatAdd(unrealized_pnl(ps[x], prices[x]), SumUnrealized(ps, prices, S \ {x}))

\* Portfolio.total_unrealized_pnl, lines 98-99
total_unrealized_pnl(ps, prices) ==
    SumUnrealized(ps, prices, { x \in DOMAIN ps : Contributes(ps, x, prices) })

\* Portfolio.total_pnl, lines 101-102
Portfolio_total_pnl(ps, prices) ==
    RatAdd(total_realized_pnl(ps), total_unrealized_pnl(ps, prices))

\* a Trade that records no realized delta
Trade_NoRealized(symbol, side, qty, price, realized) ==
    [symbol |-> symbol, side |-> side, qty |-> qty, price |-> price,
     realized_pnl |-> Zero]

\* Trade(...), line 83 (the timestamp is left out)
Trade(symbol, side, qty, price, realized) ==
    [symbol |-> symbol, side |-> side, qty |-> qty, price |-> price,
     realized_pnl |-> realized]

\* what a decoded Fill can carry to Portfolio.update
FillQtys == {0, 1, 2}
FillPrices == {0, 3}
Sides == {BUY, SELL}
\* prices passed to unrealized_pnl and total_pnl
MarkPrices == {2}
\* price snapshots passed to total_unrealized_pnl: none, one symbol, both
PriceMaps ==
    { << >>, [x \in {"AAPL"} |-> 2], [x \in Symbols |-> IF x = "AAPL" THEN 2 ELSE 0] }

\* Portfolio.update, lines 80-84, as one step: the ledger of the symbol is
\* fetched (created if absent) and updated, a Trade is appended, the realized
\* delta is returned
Portfolio_update(symbol, side, fill_qty, fill_price) ==
    /\ upc = "idle"
    /\ Len(trades) < MaxFills
    /\ LET ps == WithPosition(positions, symbol)
           r == Position_update(ps[symbol], side, fill_qty, fill_price)
       IN  /\ positions' = [ps EXCEPT ![symbol] = r.position]
           /\ trades' = Append(trades, Trade(symbol, side, fill_qty, fill_price, r.realized))
           /\ last_return' = [op |-> "update", symbol |-> symbol, side |-> side,
                              qty |-> fill_qty, price |-> fill_price,
                              value |-> r.realized]
    /\ UNCHANGED << clientVars, snapshotVars, sessionVars, updateVars >>

\* Portfolio.get_position, lines 75-78
get_position(symbol) ==
    /\ upc = "idle"
    /\ positions' = WithPosition(positions, symbol)
    /\ last_return' = [op |-> "get_position", symbol |-> symbol]
    /\ UNCHANGED << clientVars, snapshotVars, sessionVars, trades, updateVars >>

\* a call that computes a value and assigns nothing
Query(result) ==
    /\ upc = "idle"
    /\ last_return' = result
    /\ UNCHANGED << clientVars, snapshotVars, sessionVars, positions, trades, updateVars >>

\* Position.unrealized_pnl(current_price) on the ledger of a symbol
Position_unrealized_pnl(symbol, current_price) ==
    /\ symbol \in DOMAIN positions
    /\ Query([op |-> "unrealized_pnl", symbol |-> symbol, price |-> current_price,
              value |-> unrealized_pnl(positions[symbol], current_price)])

\* Position.total_pnl(current_price) on the ledger of a symbol
Position_total_pnl(symbol, current_price) ==
    /\ symbol \in DOMAIN positions
    /\ Query([op |-> "total_pnl", symbol |-> symbol, price |-> current_price,
              value |-> total_pnl(positions[symbol], current_price)])

\* Portfolio.total_realized_pnl()
Portfolio_total_realized_pnl ==
    Query([op |-> "total_realized_pnl", value |-> total_realized_pnl(positions)])

\* Portfolio.total_unrealized_pnl(prices)
Portfolio_total_unrealized_pnl(prices) ==
    Query([op |-> "total_unrealized_pnl", prices |-> prices,
           value |-> total_unrealized_pnl(positions, prices)])

\* Portfolio.get_trades(), lines 104-105: a new list of the Trades
Portfolio_get_trades ==
    Query([op |-> "get_trades", value |-> trades])

(***************************************************************************)
(* SpecPortfolio: one thread applies fills to a Portfolio and reads its    *)
(* totals.                                                                 *)
(***************************************************************************)
NextPortfolio ==
    \/ \E symbol \in Symbols, side \in Sides, fill_qty \in FillQtys, fill_price \in FillPrices :
         Portfolio_update(symbol, side, fill_qty, fill_price)
    \/ \E symbol \in Symbols : get_position(symbol)
    \/ \E symbol \in Symbols, price \in MarkPrices : Position_unrealized_pnl(symbol, price)
    \/ \E symbol \in Symbols, price \in MarkPrices : Position_total_pnl(symbol, price)
    \/ Portfolio_total_realized_pnl
    \/ \E prices \in PriceMaps : Portfolio_total_unrealized_pnl(prices)
    \/ Portfolio_get_trades

SpecPortfolio == Init /\ [][NextPortfolio]_vars

(***************************************************************************)
(* Position.update statement by statement, as the listener thread runs it  *)
(* from BaseBot._internal_on_fill (no lock is taken anywhere on this path), *)
(* and a second thread reading the fields of a Position.                   *)
(***************************************************************************)
\* _internal_on_fill line 103, Portfolio.update line 81 and Position.update
\* lines 31-34, 37-39, 43-47: the ledger is fetched (created if absent), the
\* branch chosen and the locals computed; nothing of the ledger is written yet
UpdateBegin(symbol, side, fill_qty, fill_price) ==
    /\ upc = "idle"
    /\ Len(trades) < MaxFills
    /\ positions' = WithPosition(positions, symbol)
    /\ LET p == positions'[symbol]
           b == Branch(p, side, fill_qty)
       IN  ulocal' = [symbol |-> symbol, side |-> side, fill_qty |-> fill_qty,
                      fill_price |-> fill_price, branch |-> b,
                      old_value |-> RatMulInt(Abs(p.quantity), p.avg_cost),
                      new_value |-> RatOfInt(fill_qty * fill_price),
                      realized |-> IF b = "close"
                                   THEN RealizedOnClose(p.quantity, p.avg_cost, fill_qty,
                                                        fill_price)
                                   ELSE Zero,
                      old_quantity |-> p.quantity,
                      before |-> p,
                      after |-> Position_update(p, side, fill_qty, fill_price).position]
    /\ upc' = "w1"
    /\ UNCHANGED << clientVars, snapshotVars, sessionVars, trades, last_return, seen >>

\* the first assignment to a field: line 35, line 40 or line 48
UpdateWrite1 ==
    /\ upc = "w1"
    /\ LET x == ulocal.symbol
           sq == signed_qty(ulocal.side, ulocal.fill_qty)
       IN  positions' =
             IF ulocal.branch = "open" THEN [positions EXCEPT ![x].quantity = sq]
             ELSE IF ulocal.branch = "add"
                  THEN [positions EXCEPT ![x].quantity = @ + sq]
                  ELSE [positions EXCEPT ![x].realized_pnl = RatAdd(@, ulocal.realized)]
    /\ upc' = "w2"
    /\ UNCHANGED << clientVars, snapshotVars, sessionVars, trades, last_return, ulocal, seen >>

\* the second assignment: line 36, line 41 or lines 49-50
UpdateWrite2 ==
    /\ upc = "w2"
    /\ LET x == ulocal.symbol
           sq == signed_qty(ulocal.side, ulocal.fill_qty)
       IN  positions' =
             IF ulocal.branch = "open"
             THEN [positions EXCEPT ![x].avg_cost = RatOfInt(ulocal.fill_price)]
             ELSE IF ulocal.branch = "add"
                  THEN [positions EXCEPT ![x].avg_cost =
                          WeightedAvg(ulocal.old_value, ulocal.new_value,
                                      positions[x].quantity)]
                  ELSE [positions EXCEPT ![x].quantity = @ + sq]
    /\ ulocal' = [ulocal EXCEPT !.old_quantity = positions[ulocal.symbol].quantity]
    /\ upc' = IF ulocal.branch = "close" THEN "w3" ELSE "ret"
    /\ UNCHANGED << clientVars, snapshotVars, sessionVars, trades, last_return, seen >>

\* lines 51-54, after a reducing fill
UpdateWrite3 ==
    /\ upc = "w3"
    /\ LET x == ulocal.symbol
           quantity == positions[x].quantity
       IN  positions' =
             IF Flipped(ulocal.old_quantity, quantity)
             THEN [positions EXCEPT ![x].avg_cost = RatOfInt(ulocal.fill_price)]
             ELSE IF quantity = 0 THEN [positions EXCEPT ![x].avg_cost = Zero]
             ELSE positions
    /\ upc' = "ret"
    /\ UNCHANGED << clientVars, snapshotVars, sessionVars, trades, last_return, ulocal, seen >>

\* line 55, then Portfolio.update lines 83-84
UpdateReturn ==
    /\ upc = "ret"
    /\ trades' = Append(trades, Trade(ulocal.symbol, ulocal.side, ulocal.fill_qty,
                                      ulocal.fill_price, ulocal.realized))
    /\ last_return' = [op |-> "update", symbol |-> ulocal.symbol, side |-> ulocal.side,
                       qty |-> ulocal.fill_qty, price |-> ulocal.fill_price,
                       value |-> ulocal.realized]
    /\ upc' = "idle"
    /\ ulocal' = NoUpdate
    /\ UNCHANGED << clientVars, snapshotVars, sessionVars, positions, seen >>

\* another thread reads quantity, avg_cost and realized_pnl of a Position,
\* here with no step of the listener between the three reads; it notes
\* whether an update of that Position was in progress, and from what to what
ReadPosition(symbol) ==
    /\ symbol \in DOMAIN positions
    /\ seen' = IF upc \in {"w1", "w2", "w3"} /\ ulocal.symbol = symbol
               THEN [symbol |-> symbol, triple |-> positions[symbol],
                     before |-> ulocal.before, after |-> ulocal.after]
               ELSE [symbol |-> symbol, triple |-> positions[symbol],
                     before |-> positions[symbol], after |-> positions[symbol]]
    /\ UNCHANGED << clientVars, snapshotVars, sessionVars, portfolioVars, upc, ulocal >>

(***************************************************************************)
(* SpecReader: the listener applies fills while another thread reads.      *)
(***************************************************************************)
NextReader ==
    \/ \E symbol \in Symbols, side \in Sides, fill_qty \in FillQtys, fill_price \in FillPrices :
         UpdateBegin(symbol, side, fill_qty, fill_price)
    \/ UpdateWrite1
    \/ UpdateWrite2
    \/ UpdateWrite3
    \/ UpdateReturn
    \/ \E symbol \in Symbols : ReadPosition(symbol)

SpecReader == Init /\ [][NextReader]_vars

(***************************************************************************)
(* The codec on its own: an Envelope is constructed and passed through     *)
(* to_json and from_json, or a JSON text is received and passed through    *)
(* from_json.  json.dumps followed by json.loads gives back the document   *)
(* it was given (string keys, integers, strings, booleans, null, nested    *)
(* objects), so the JSON text is modelled by the document it denotes.      *)
(***************************************************************************)
\* messages.py: the inbound dataclasses built with explicit field values
Ack(c, v, symbol) ==
    [kind |-> "Ack", client_order_id |-> c, order_id |-> v, symbol |-> symbol]
Reject(c, symbol, reason, code) ==
    [kind |-> "Reject", client_order_id |-> c, symbol |-> symbol,
     info |-> [reason |-> reason, code |-> code]]
Fill(v, symbol, side, fill_qty, fill_price, complete) ==
    [kind |-> "Fill", order_id |-> v, symbol |-> symbol, side |-> side,
     fill_qty |-> fill_qty, fill_price |-> fill_price, complete |-> complete]
MessageHeader(type, seq, cl) ==
    [version |-> 1, type |-> type, seq |-> seq, client_id |-> cl]
Envelope(header, body) == [header |-> header, body |-> body]

CodecQtys == 0..MaxCodecQty
CodecSeqs == 0..MaxCodecSeq
CodecPrices == {0, 10}
CodecNewOrders ==
    { create_new_order(client_id, 1, symbol, side, qty, price, ord_type, tif, seq) :
        symbol \in Symbols, side \in {BUY, SELL}, qty \in CodecQtys,
        price \in CodecPrices, ord_type \in {MARKET, LIMIT}, tif \in {DAY, IOC},
        seq \in CodecSeqs }
CodecCancels ==
    { create_cancel(client_id, symbol, order_id, c, seq) :
        symbol \in {"", "AAPL"}, order_id \in CodecQtys, c \in CodecQtys,
        seq \in CodecSeqs }
CodecAcks ==
    { Envelope(MessageHeader(ACK, seq, client_id), Ack(c, v, symbol)) :
        seq \in CodecSeqs, c \in CodecQtys, v \in CodecQtys, symbol \in {"", "AAPL"} }
CodecRejects ==
    { Envelope(MessageHeader(REJECT, seq, client_id), Reject(c, "AAPL", reason, code)) :
        seq \in CodecSeqs, c \in CodecQtys, reason \in {"", "no"}, code \in {0, 3} }
CodecFills ==
    { Envelope(MessageHeader(FILL, seq, client_id),
               Fill(v, "AAPL", side, fill_qty, fill_price, complete)) :
        seq \in CodecSeqs, v \in CodecQtys, side \in {BUY, SELL},
        fill_qty \in CodecQtys, fill_price \in CodecPrices, complete \in BOOLEAN }
\* envelopes whose body is a plain dict
CodecDicts ==
    { Envelope(MessageHeader(HEARTBEAT, seq, client_id), body) :
        seq \in CodecSeqs, body \in { << >>, [client_order_id |-> 1] } }
CodecEnvelopes ==
    CodecNewOrders \cup CodecCancels \cup CodecAcks \cup CodecRejects
    \cup CodecFills \cup CodecDicts

\* header.type codes a received text may carry: the six MsgType members and
\* two integers that are no MsgType
CodecTypeCodes == MsgTypeValues \cup {0, 7}
CodecBodies ==
    { << >>, [client_order_id |-> 1, symbol |-> "AAPL"],
      [order_id |-> 1, symbol |-> "AAPL", side |-> [str |-> "B"], fill_qty |-> 1,
       fill_price |-> 10, complete |-> TRUE] }
CodecWire ==
    { Wire(type, body) : type \in CodecTypeCodes, body \in CodecBodies }
    \cup InboundUndecodable

\* an Envelope is constructed (create_new_order, create_cancel, or the
\* dataclass constructors)
Envelope_new(m) ==
    /\ codec.stage = "none"
    /\ codec' = [stage |-> "built", m |-> m, json |-> [json |-> FALSE],
                 out |-> NoEnvelope]
    /\ UNCHANGED << clientVars, snapshotVars, portfolioVars, updateVars, threadVars, fillVars >>

\* a JSON text arrives from the venue
recv_string(json_string) ==
    /\ codec.stage = "none"
    /\ codec' = [stage |-> "received", m |-> NoEnvelope, json |-> json_string,
                 out |-> NoEnvelope]
    /\ UNCHANGED << clientVars, snapshotVars, portfolioVars, updateVars, threadVars, fillVars >>

\* m.to_json(), lines 196-202
to_json ==
    /\ codec.stage = "built"
    /\ LET json_string == Envelope_to_json(codec.m)
       IN  codec' = [codec EXCEPT !.stage = IF json_string.json THEN "encoded"
                                            ELSE "raised",
                                  !.json = json_string]
    /\ UNCHANGED << clientVars, snapshotVars, portfolioVars, updateVars, threadVars, fillVars >>

\* Envelope.from_json(json_string), lines 204-221
from_json ==
    /\ codec.stage \in {"encoded", "received"}
    /\ codec' = [codec EXCEPT !.stage = "decoded",
                              !.out = Envelope_from_json(codec.json)]
    /\ UNCHANGED << clientVars, snapshotVars, portfolioVars, updateVars, threadVars, fillVars >>

(***************************************************************************)
(* SpecCodec: one envelope or one received text goes through the codec.    *)
(***************************************************************************)
NextCodec ==
    \/ \E m \in CodecEnvelopes : Envelope_new(m)
    \/ \E json_string \in CodecWire : recv_string(json_string)
    \/ to_json
    \/ from_json

SpecCodec == Init /\ [][NextCodec]_vars

(***************************************************************************)
(* The listener's life: connect, start, stop and disconnect are called one *)
(* after the other by the thread that owns the client (BaseBot             *)
(* _start_internal and stop), every start() that finds _running false      *)
(* creates a Thread, and each Thread runs _listen_loop.  A Thread is       *)
(* [at, stopped]: where it is in the loop, and whether stop() has cleared  *)
(* _running since the Thread was created.  Time is not modelled; what is   *)
(* kept of it is that a poll returns within 100 ms while join waits a      *)
(* second, so join(timeout=1.0) gives up only on a Thread that is inside   *)
(* _handle_message (the handler with its observers has no time bound).     *)
(***************************************************************************)
Alive(i) == lthreads[i].at # "exited"
AliveThreads == { i \in 1..Len(lthreads) : Alive(i) }
CtlIdle == ctl.at = "returned"
ThreadVars(i, at) == [lthreads EXCEPT ![i].at = at]

\* connect, lines 31-36, on a client whose sockets were closed
connect ==
    /\ CtlIdle
    /\ ~sockets_open
    /\ sockets_open' = TRUE
    /\ ctl' = [op |-> "connect", at |-> "returned"]
    /\ UNCHANGED << clientVars, snapshotVars, portfolioVars, updateVars, codecVars, fillVars,
                    listener_thread, lthreads >>

\* start, lines 48-52, with _running false: a new Thread is created and
\* started
start_thread ==
    /\ CtlIdle
    /\ ~running
    /\ Len(lthreads) < MaxThreads
    /\ running' = TRUE
    /\ lthreads' = Append(lthreads, [at |-> "test", stopped |-> FALSE])
    /\ listener_thread' = Len(lthreads) + 1
    /\ ctl' = [op |-> "start", at |-> "returned"]
    /\ UNCHANGED << lock, clientState, callbacks, send_socket, pc, frame, returns,
                    listenerVars, snapshotVars, portfolioVars, updateVars, codecVars, fillVars,
                    sockets_open >>

\* start, lines 48-49, with _running true: return
start_ignored ==
    /\ CtlIdle
    /\ running
    /\ ctl' = [op |-> "start_ignored", at |-> "returned"]
    /\ UNCHANGED << clientVars, snapshotVars, portfolioVars, updateVars, codecVars, fillVars,
                    listener_thread, lthreads, sockets_open >>

\* where the caller of stop() goes after line 55
AfterClear(op) ==
    IF listener_thread # 0 THEN "join" ELSE IF op = "stop" THEN "returned" ELSE "close"
\* where the caller goes when join returns
AfterJoin(op) == IF op = "stop" THEN "returned" ELSE "close"

\* stop, line 55, called directly (op = "stop") or from disconnect, line 39
stop_clear(op) ==
    /\ CtlIdle
    /\ running' = FALSE
    /\ lthreads' = [i \in 1..Len(lthreads) |->
                      IF Alive(i) THEN [lthreads[i] EXCEPT !.stopped = TRUE]
                      ELSE lthreads[i]]
    /\ ctl' = [op |-> op, at |-> AfterClear(op)]
    /\ UNCHANGED << lock, clientState, callbacks, send_socket, pc, frame, returns,
                    listenerVars, snapshotVars, portfolioVars, updateVars, codecVars, fillVars,
                    listener_thread, sockets_open >>

\* stop, lines 56-57: join returns because the Thread has ended
join_returns ==
    /\ ctl.at = "join"
    /\ ~Alive(listener_thread)
    /\ ctl' = [ctl EXCEPT !.at = AfterJoin(ctl.op)]
    /\ UNCHANGED << clientVars, snapshotVars, portfolioVars, updateVars, codecVars, fillVars,
                    listener_thread, lthreads, sockets_open >>

\* stop, lines 56-57: join gives up after its timeout; the Thread is still
\* inside _handle_message
join_timeout ==
    /\ ctl.at = "join"
    /\ lthreads[listener_thread].at = "handle"
    /\ ctl' = [ctl EXCEPT !.at = AfterJoin(ctl.op)]
    /\ UNCHANGED << clientVars, snapshotVars, portfolioVars, updateVars, codecVars, fillVars,
                    listener_thread, lthreads, sockets_open >>

\* disconnect, lines 40-45: the sockets are closed, the context terminated
disconnect_close ==
    /\ ctl.at = "close"
    /\ sockets_open' = FALSE
    /\ ctl' = [ctl EXCEPT !.at = "returned"]
    /\ UNCHANGED << clientVars, snapshotVars, portfolioVars, updateVars, codecVars, fillVars,
                    listener_thread, lthreads >>

\* a loop that never looks at the flag
LoopContinues_Always(flag) == TRUE

\* line 98: `while self._running`
LoopContinues(flag) == flag

\* line 98, by Thread i: go on to poll, or leave the loop and end
loop_test(i) ==
    /\ i \in 1..Len(lthreads)
    /\ lthreads[i].at = "test"
    /\ lthreads' = ThreadVars(i, IF LoopContinues(running) THEN "poll" ELSE "exited")
    /\ UNCHANGED << clientVars, snapshotVars, portfolioVars, updateVars, codecVars, fillVars,
                    listener_thread, ctl, sockets_open >>

\* line 100, by Thread i: no message within the wait, or the poll raises on
\* a closed socket and lines 102-104 catch it; back to the loop test
loop_poll_idle(i) ==
    /\ i \in 1..Len(lthreads)
    /\ lthreads[i].at = "poll"
    /\ lthreads' = ThreadVars(i, "test")
    /\ UNCHANGED << clientVars, snapshotVars, portfolioVars, updateVars, codecVars, fillVars,
                    listener_thread, ctl, sockets_open >>

\* lines 100-101, by Thread i: a message is there; it is received and
\* _handle_message is entered
loop_poll_message(i) ==
    /\ i \in 1..Len(lthreads)
    /\ lthreads[i].at = "poll"
    /\ sockets_open
    /\ polled < MaxInboundThreads
    /\ polled' = polled + 1
    /\ lthreads' = ThreadVars(i, "handle")
    /\ UNCHANGED << lock, clientState, callbacks, running, send_socket, pc, frame,
                    returns, lpc, cur, idx, delivered, dropped, acked, rejected, filled,
                    snapshotVars, portfolioVars, updateVars, codecVars, fillVars,
                    listener_thread, ctl, sockets_open >>

\* line 101, by Thread i: _handle_message returns, its observers have
\* returned
loop_handle_done(i) ==
    /\ i \in 1..Len(lthreads)
    /\ lthreads[i].at = "handle"
    /\ lthreads' = ThreadVars(i, "test")
    /\ UNCHANGED << clientVars, snapshotVars, portfolioVars, updateVars, codecVars, fillVars,
                    listener_thread, ctl, sockets_open >>

(***************************************************************************)
(* SpecThreads: the owner calls connect, start, stop and disconnect in any *)
(* order while the Threads it created run the listener loop.               *)
(***************************************************************************)
NextThreads ==
    \/ connect
    \/ start_thread
    \/ start_ignored
    \/ \E op \in {"stop", "disconnect"} : stop_clear(op)
    \/ join_returns
    \/ join_timeout
    \/ disconnect_close
    \/ \E i \in 1..MaxThreads :
         \/ loop_test(i)
         \/ loop_poll_idle(i)
         \/ loop_poll_message(i)
         \/ loop_handle_done(i)

SpecThreads == Init /\ [][NextThreads]_vars

(***************************************************************************)
(* base_bot.py: a BaseBot owns its client and its Portfolio, registers its *)
(* three internal observers when it is built and starts the listener in    *)
(* _start_internal.  _internal_on_fill runs on the listener thread, inside *)
(* the observer loop of _handle_message.                                   *)
(***************************************************************************)
\* the Fills the venue sends to the bot, and one Ack
InboundBot ==
    { Wire(FILL, [order_id |-> 1, symbol |-> symbol, side |-> [str |-> code],
                  fill_qty |-> fill_qty, fill_price |-> 3, complete |-> complete]) :
        symbol \in Symbols, code \in {"B", "S"}, fill_qty \in {1, 2},
        complete \in BOOLEAN }
    \cup { Ack_wire(1, 1) }

\* BaseBot.__init__, lines 38-40, on the client it has just built
BaseBot_init ==
    /\ ~running
    /\ NumObservers = 0
    /\ callbacks' = [ty \in CallbackTypes |->
                       IF ty = ACK THEN << 1 >> ELSE IF ty = REJECT THEN << 2 >>
                       ELSE << 3 >>]
    /\ UNCHANGED << lock, clientState, running, send_socket, pc, frame, returns,
                    listenerVars >>
    /\ UNCHANGED botVars

\* _start_internal, lines 54-55: connect() and start() on the bot's client
BaseBot_start_internal ==
    /\ NumObservers = 3
    /\ start

\* _internal_on_ack, _internal_on_reject, lines 106-110: the strategy's
\* handler is called and returns
BaseBot_internal_on_ack_reject ==
    /\ cur.kind \in {"Ack", "Reject"}
    /\ ObserverReturn

\* a bot that hands the fill to the strategy without applying it
Portfolio_after_fill_Unapplied(ps, fill) == ps

\* line 103: the ledgers after portfolio.update(symbol, side, fill_qty,
\* fill_price)
Portfolio_after_fill(ps, fill) ==
    LET held == WithPosition(ps, fill.symbol)
    IN  [held EXCEPT ![fill.symbol] =
           Position_update(held[fill.symbol], fill.side, fill.fill_qty,
                           fill.fill_price).position]

\* the listener is inside the bot's fill observer
InFillObserver == lpc = "in_cb" /\ cur.kind = "Fill" /\ pc[Listener] = "idle"

\* _internal_on_fill, line 102
internal_on_fill_price ==
    /\ InFillObserver
    /\ bpc = "idle"
    /\ last_prices' = DictSet(last_prices, cur.body.symbol, cur.body.fill_price)
    /\ blocal' = [serial |-> polled, fill |-> cur.body,
                  quantity |-> get_quantity(positions, cur.body.symbol),
                  trades |-> Len(trades)]
    /\ bpc' = "priced"
    /\ UNCHANGED << clientVars, snapshotVars, portfolioVars, updateVars, codecVars,
                    threadVars, on_fill_seen >>

\* _internal_on_fill, line 103: Portfolio.update, lines 80-84
internal_on_fill_update ==
    /\ InFillObserver
    /\ bpc = "priced"
    /\ positions' = Portfolio_after_fill(positions, cur.body)
    /\ LET fill == cur.body
           r == Position_update(WithPosition(positions, fill.symbol)[fill.symbol],
                                fill.side, fill.fill_qty, fill.fill_price)
       IN  /\ trades' = Append(trades, Trade(fill.symbol, fill.side, fill.fill_qty,
                                             fill.fill_price, r.realized))
           /\ last_return' = [op |-> "update", symbol |-> fill.symbol,
                              side |-> fill.side, qty |-> fill.fill_qty,
                              price |-> fill.fill_price, value |-> r.realized]
    /\ bpc' = "updated"
    /\ UNCHANGED << clientVars, snapshotVars, updateVars, codecVars, threadVars,
                    last_prices, blocal, on_fill_seen >>

\* _internal_on_fill, line 104: the strategy's on_fill is invoked with the
\* fill, finds the bot as it is now, and returns; the observer loop goes on
internal_on_fill_on_fill ==
    /\ InFillObserver
    /\ bpc = "updated"
    /\ on_fill_seen' = [serial |-> polled, fill |-> cur.body,
                        position |-> get_quantity(positions, cur.body.symbol),
                        price |-> DictGet(last_prices, cur.body.symbol, None),
                        trades |-> trades]
    /\ bpc' = "idle"
    /\ idx' = idx + 1
    /\ lpc' = "dispatch"
    /\ frame' = [frame EXCEPT ![Listener] = EmptyFrame]
    /\ UNCHANGED << lock, clientState, callbacks, running, send_socket, pc, returns,
                    cur, delivered, polled, dropped, acked, rejected, filled >>
    /\ UNCHANGED << snapshotVars, portfolioVars, updateVars, codecVars, threadVars,
                    last_prices, blocal >>

(***************************************************************************)
(* SpecBot: a bot is built and started; its listener handles the venue's   *)
(* Fills and runs the bot's observers.                                     *)
(***************************************************************************)
NextBot ==
    \/ BaseBot_init
    \/ BaseBot_start_internal
    \/ \E json_string \in InboundBot : Poll(json_string, MaxInboundBot)
    \/ HandleAcquire
    \/ HandleUpdate
    \/ HandlePartialFill
    \/ Deliver
    \/ BaseBot_internal_on_ack_reject
    \/ internal_on_fill_price
    \/ internal_on_fill_update
    \/ internal_on_fill_on_fill
    \/ DispatchDone

SpecBot == Init /\ [][NextBot]_vars

(***************************************************************************)
(* Properties.                                                             *)
(***************************************************************************)
\* the submit calls that hold an allocated client_order_id and seq: those in
\* flight past the allocation and those that have returned
InFlightSubmits == { t \in Threads : pc[t] \in {"send", "register"} /\ IsSubmit(frame[t]) }
AllocatedPairs ==
    { [call |-> <<"returned", r.cid>>, cid |-> r.cid, seq |-> r.seq] : r \in returns }
    \cup { [call |-> <<"thread", t>>, cid |-> frame[t].cid, seq |-> frame[t].seq] :
             t \in InFlightSubmits }
\* the header.seq of the NEW_ORDER messages on the send socket, by position
NewOrderPositions ==
    { i \in 1..Len(send_socket) : send_socket[i].doc.header.type = NEW_ORDER }

C1_Distinct ==
    /\ \A a, b \in AllocatedPairs :
         a.call # b.call => (a.cid # b.cid /\ a.seq # b.seq)
    /\ \A i, j \in NewOrderPositions :
         i # j => send_socket[i].doc.header.seq # send_socket[j].doc.header.seq

\* thread t allocates the ids of a submit call in this step
SubmitAllocates(t) == pc[t] = "idle" /\ pc'[t] = "send" /\ IsSubmit(frame'[t])

\* C1: concurrent submit calls of different threads hold pairwise distinct
\* client_order_ids and put pairwise distinct seq values on their NEW_ORDER
\* messages, and a call that allocates after another call has returned gets
\* the strictly larger client_order_id and seq.
C1_DistinctIncreasingIds ==
    [][ /\ C1_Distinct'
        /\ \A t \in Threads : SubmitAllocates(t) =>
             \A r \in returns : r.cid < frame'[t].cid /\ r.seq < frame'[t].seq ]_vars

\* two submit calls of different threads overlap, both holding their ids
C1_Witness ==
    \E t, u \in Callers : /\ t # u
                          /\ pc[t] = "register" /\ pc[u] = "send"
                          /\ IsSubmit(frame[t]) /\ IsSubmit(frame[u])
                          /\ Len(send_socket) = 1

\* what the submit call that returned r passed as symbol, side and qty
SubmittedEntry(r) == [symbol |-> r.symbol, side |-> r.side, qty |-> r.qty]

\* C2: from the return of the submit call that allocated c until a Reject for
\* c or a complete Fill for c's venue id is processed, the pending-order table
\* maps c to the symbol, side and qty of that call, whatever submits, cancels,
\* Acks and partial Fills happen in between.
C2_PendingUntilTerminal ==
    \A r \in returns :
        (/\ \A x \in rejected : x.cid # r.cid
         /\ \A x \in filled : x.cid # r.cid)
        => /\ r.cid \in DOMAIN pending_orders
           /\ pending_orders[r.cid] = SubmittedEntry(r)

\* no cancel_order call has been made
NoCancelIssued ==
    /\ \A t \in Threads : frame[t].op # "cancel_order"
    /\ \A i \in 1..Len(send_socket) : send_socket[i].doc.header.type # CANCEL

\* C3: with no cancel issued, once the submit call that allocated c has
\* returned and the listener has processed a Reject for c (sent by the venue
\* in answer to the NEW_ORDER of c), c is not a key of the pending-order table.
C3_RejectedNotPending ==
    NoCancelIssued =>
        \A r \in returns :
            [cid |-> r.cid, sent |-> TRUE] \in rejected
            => r.cid \notin DOMAIN pending_orders

\* every client order was Acked with one venue id, and no two with the same
AcksDistinct ==
    \A a, b \in acked : (a.cid = b.cid) <=> (a.oid = b.oid)

\* C4: when the Acks carried pairwise distinct venue ids, an order submitted
\* as c, then Acked with v, then completely filled under v is absent from the
\* pending-order table once the Fill has been processed and the submit call
\* has returned (checked for the runs in which no cancel is issued).
C4_FilledNotPending ==
    (AcksDistinct /\ NoCancelIssued) =>
        \A r \in returns :
            [cid |-> r.cid, sent |-> TRUE] \in filled
            => r.cid \notin DOMAIN pending_orders

\* thread t makes the cancel_order call in this step (lines 89-93)
CancelCalled(t) == pc[t] = "idle" /\ pc'[t] = "send" /\ frame'[t].op = "cancel_order"
\* thread t's cancel_order passes its envelope to the socket in this step
CancelSent(t) == pc[t] = "send" /\ pc'[t] = "register" /\ frame[t].op = "cancel_order"
\* thread t's cancel_order returns in this step
CancelReturned(t) == pc[t] = "register" /\ pc'[t] = "idle" /\ frame[t].op = "cancel_order"

\* C7: cancel_order(symbol, c) takes the venue id mapped to c at the call (0
\* when no Ack for c has been processed), allocates the next seq and leaves
\* the client_order_id counter alone; it appends exactly one message to the
\* socket, of type CANCEL, with that seq, client_order_id c, and the venue id
\* (left out of the body when it is 0).
C7_CancelMessage ==
    [][ \A t \in Threads :
          /\ CancelCalled(t) =>
               /\ frame'[t].order_id = MapGet(order_id_map, frame'[t].cid, 0)
               /\ (\A a \in acked : a.cid # frame'[t].cid) => frame'[t].order_id = 0
               /\ frame'[t].order_id # 0 =>
                    \E a \in acked : a.cid = frame'[t].cid /\ a.oid = frame'[t].order_id
               /\ frame'[t].seq = next_seq
               /\ next_seq' = next_seq + 1
               /\ next_order_id' = next_order_id
               /\ send_socket' = send_socket
          /\ CancelSent(t) =>
               /\ Len(send_socket') = Len(send_socket) + 1
               /\ SubSeq(send_socket', 1, Len(send_socket)) = send_socket
               /\ LET m == send_socket'[Len(send_socket')].doc IN
                    /\ m.header.type = CANCEL
                    /\ m.header.seq = frame[t].seq
                    /\ "client_order_id" \in DOMAIN m.body
                    /\ m.body.client_order_id = frame[t].cid
                    /\ ("order_id" \in DOMAIN m.body) <=> (frame[t].order_id # 0)
                    /\ "order_id" \in DOMAIN m.body => m.body.order_id = frame[t].order_id
               /\ next_seq' = next_seq /\ next_order_id' = next_order_id
          /\ CancelReturned(t) =>
               /\ send_socket' = send_socket
               /\ next_seq' = next_seq /\ next_order_id' = next_order_id ]_vars

\* a cancel for an Acked order, carrying the venue id of a different number
\* than its client_order_id, is on the socket
C7_Witness ==
    \E t \in TwoCallers :
        /\ pc[t] = "register" /\ frame[t].op = "cancel_order"
        /\ frame[t].order_id # 0 /\ frame[t].order_id # frame[t].cid
        /\ send_socket[Len(send_socket)].doc.header.type = CANCEL

\* the inbound message being handled is a Fill with complete = false
PartialFill == cur.kind = "Fill" /\ ~cur.body.complete

C6_AckFrame ==
    [][ (cur.kind = "Ack" /\ lpc' # lpc) =>
          /\ pending_orders' = pending_orders
          /\ next_order_id' = next_order_id /\ next_seq' = next_seq
          /\ lpc # "update" => order_id_map' = order_id_map
          /\ lpc = "update" =>
               /\ MapKeys(order_id_map') = MapKeys(order_id_map) \cup {cur.body.client_order_id}
               /\ MapGet(order_id_map', cur.body.client_order_id, 0) = cur.body.order_id
               /\ \A k \in MapKeys(order_id_map) \ {cur.body.client_order_id} :
                    MapGet(order_id_map', k, 0) = MapGet(order_id_map, k, 0) ]_vars

\* an Ack has been applied to a map that held another order's entry, with
\* an order pending
C6_Witness ==
    /\ cur.kind = "Ack"
    /\ lpc = "dispatch"
    /\ Len(order_id_map) = 2
    /\ pending_orders # << >>

\* C8: every Ack, Reject or Fill is handed exactly once to every observer
\* registered for its type, in registration order, after the state update,
\* whether an observer returns or raises: when the listener leaves the
\* observer loop the observers called are exactly the registered ones.
C8_AllObserversCalled ==
    [][ (lpc \in {"dispatch", "in_cb"} /\ lpc' = "poll") =>
           delivered = callbacks[CbType(cur)] ]_vars

\* C9: while an observer runs the listener thread does not hold the lock, so
\* a call the observer makes into the client can take it.
C9_ObserverOutsideLock ==
    lpc = "in_cb" => (lock # Listener /\ (pc[Listener] = "register" => lock = NoThread))

\* an observer has called into the client and the call has returned
C9_Witness ==
    /\ lpc = "in_cb"
    /\ frame[Listener].op = "returned"
    /\ pending_orders # << >>

\* C10: an inbound message that fails to decode (malformed JSON, no header,
\* no body, an invalid enum code) leaves the pending-order table, the
\* order-id map and both counters unchanged, reaches no observer, and the
\* listener is back at its loop, running.
C10_DecodeErrorDropped ==
    [][ /\ \A w \in InboundUndecodable : Envelope_from_json(w).kind = "Error"
        /\ (lpc = "handle" /\ cur.kind = "Error" /\ lpc' # lpc) =>
              /\ clientState' = clientState
              /\ delivered' = << >>
              /\ lpc' = "poll"
              /\ running' ]_vars

\* a message was dropped while an order was pending and Acked and observers
\* were registered; the listener is polling again
C10_Witness ==
    /\ dropped = 1
    /\ lpc = "poll"
    /\ running
    /\ pending_orders # << >>
    /\ order_id_map # << >>
    /\ NumObservers > 0

\* the keys of the pending-order table an Ack, Reject or Fill is about
KeysOf(envelope) ==
    IF envelope.kind = "Reject" THEN {envelope.body.client_order_id}
    ELSE IF envelope.kind = "Fill"
         THEN { k \in MapKeys(order_id_map) :
                  MapGet(order_id_map, k, 0) = envelope.body.order_id }
         ELSE {}

\* C11: handling an Ack, Reject or Fill never ends the listener and leaves
\* every pending entry of another order as it is; when the id it carries is
\* unknown (no pending entry for the Reject's client_order_id, no map entry
\* for the Fill's venue id) the pending table is unchanged; Rejects and Fills
\* leave the order-id map alone, and applying the same Ack, Reject or complete
\* Fill again to the state it produced changes nothing.
C11_UnknownAndRepeated ==
    [][ (cur.kind \in {"Ack", "Reject", "Fill"} /\ lpc' # lpc) =>
          /\ lpc' # "off" /\ running'
          /\ DOMAIN pending_orders' \subseteq DOMAIN pending_orders
          /\ \A k \in DOMAIN pending_orders \ KeysOf(cur) :
               k \in DOMAIN pending_orders' /\ pending_orders'[k] = pending_orders[k]
          /\ KeysOf(cur) \cap DOMAIN pending_orders = {} => pending_orders' = pending_orders
          /\ cur.kind # "Ack" => order_id_map' = order_id_map
          /\ lpc = "update" =>
               /\ cur.kind = "Ack" => AckUpdate(order_id_map', cur.body) = order_id_map'
               /\ cur.kind = "Reject" =>
                    RejectUpdate(pending_orders', cur.body) = pending_orders'
               /\ cur.kind = "Fill" =>
                    FillUpdate(pending_orders', order_id_map', cur.body) = pending_orders' ]_vars

\* a Reject for a client_order_id that was never submitted has been applied,
\* after an earlier message, while another order is pending
C11_Witness ==
    /\ lpc = "dispatch"
    /\ cur.kind = "Reject"
    /\ polled >= 2
    /\ cur.body.client_order_id \notin SentIds
    /\ pending_orders # << >>

\* C12: the dict returned by get_pending_orders() and the client's
\* pending-order table never change together: no submit, cancel or inbound
\* event changes the returned dict, and no write into the returned dict (a
\* key added or deleted, a field of an entry changed) changes the table.
C12_SnapshotIsCopy ==
    [][ snapshot.taken =>
          (snapshot'.dict = snapshot.dict \/ pending_orders' = pending_orders) ]_vars

\* C14: after any sequence of updates with fill_qty >= 0 and fill_price >= 0,
\* the avg_cost of a ledger is 0 exactly when its quantity is 0.
C14_AvgCostZeroIffFlat ==
    \A x \in DOMAIN positions :
        (positions[x].avg_cost = Zero) <=> (positions[x].quantity = 0)

\* this step is a Portfolio.update call; its arguments are in last_return'
UpdateStep == trades' # trades
\* the ledger the update of this step starts from
LedgerBefore ==
    IF last_return'.symbol \in DOMAIN positions THEN positions[last_return'.symbol]
    ELSE NewPosition
\* the ledger the update of this step leaves
LedgerAfter == positions'[last_return'.symbol]
\* BUY on a long position, SELL on a short one
Adding == \/ LedgerBefore.quantity > 0 /\ last_return'.side = BUY
          \/ LedgerBefore.quantity < 0 /\ last_return'.side = SELL
\* SELL on a long position, BUY on a short one
Reducing == \/ LedgerBefore.quantity > 0 /\ last_return'.side = SELL
            \/ LedgerBefore.quantity < 0 /\ last_return'.side = BUY
SignedQty == IF last_return'.side = BUY THEN last_return'.qty ELSE -last_return'.qty
Long10At100 == [quantity |-> 10, avg_cost |-> RatOfInt(100), realized_pnl |-> Zero]

\* C15: a fill in the direction of a non-flat position gives quantity +
\* signed_qty, an avg_cost with avg_cost_new * |quantity_new| = |quantity_old|
\* * avg_cost_old + fill_qty * fill_price, returns 0 and leaves realized_pnl
\* unchanged; long 10@100 then buy 10@110 gives quantity 20, avg_cost 105.
C15_AddWeightedAverage ==
    [][ /\ Position_update(Long10At100, BUY, 10, 110) =
             [position |-> [quantity |-> 20, avg_cost |-> RatOfInt(105),
                            realized_pnl |-> Zero],
              realized |-> Zero]
        /\ (UpdateStep /\ Adding) =>
             /\ LedgerAfter.quantity = LedgerBefore.quantity + SignedQty
             /\ RatMulInt(Abs(LedgerAfter.quantity), LedgerAfter.avg_cost) =
                  RatAdd(RatMulInt(Abs(LedgerBefore.quantity), LedgerBefore.avg_cost),
                         RatOfInt(last_return'.qty * last_return'.price))
             /\ last_return'.value = Zero
             /\ LedgerAfter.realized_pnl = LedgerBefore.realized_pnl ]_vars

\* a long position of 2 bought in two fills at different prices
C15_Witness ==
    /\ last_return.op = "update"
    /\ last_return.side = BUY
    /\ Len(trades) = 2
    /\ positions[last_return.symbol].quantity = 2
    /\ positions[last_return.symbol].avg_cost = Rat(3, 2)

\* C16: a fill against a non-flat position returns close_qty * (fill_price -
\* avg_cost) if long, close_qty * (avg_cost - fill_price) if short, with
\* close_qty = min(fill_qty, |quantity|); realized_pnl grows by that delta and
\* quantity becomes quantity + signed_qty; long 10@100 then sell 15@120 gives
\* 200 and -5, long 10@100 then sell 10@90 gives -100 and 0.
C16_CloseRealizes ==
    [][ /\ LET r == Position_update(Long10At100, SELL, 15, 120)
           IN  r.realized = RatOfInt(200) /\ r.position.quantity = -5
        /\ LET r == Position_update(Long10At100, SELL, 10, 90)
           IN  r.realized = RatOfInt(-100) /\ r.position.quantity = 0
        /\ (UpdateStep /\ Reducing) =>
             LET cq == IF last_return'.qty <= Abs(LedgerBefore.quantity)
                       THEN last_return'.qty ELSE Abs(LedgerBefore.quantity)
                 diff == IF LedgerBefore.quantity > 0
                         THEN RatSub(RatOfInt(last_return'.price), LedgerBefore.avg_cost)
                         ELSE RatSub(LedgerBefore.avg_cost, RatOfInt(last_return'.price))
                 delta == RatMulInt(cq, diff)
             IN  /\ last_return'.value = delta
                 /\ LedgerAfter.realized_pnl = RatAdd(LedgerBefore.realized_pnl, delta)
                 /\ LedgerAfter.quantity = LedgerBefore.quantity + SignedQty ]_vars

\* a long position of 1 was sold 2: closed with a gain and flipped short
C16_Witness ==
    /\ last_return.op = "update"
    /\ last_return.side = SELL
    /\ last_return.qty = 2
    /\ last_return.value = RatOfInt(3)
    /\ positions[last_return.symbol].quantity = -1

\* C17: realized_pnl changes only in an update that reduces a position:
\* update returns 0 and leaves realized_pnl alone when the position is flat
\* or the fill adds to it, and unrealized_pnl(price) and total_pnl(price)
\* change no field of any position.
C17_RealizedOnlyOnClose ==
    [][ /\ (UpdateStep /\ (LedgerBefore.quantity = 0 \/ Adding)) =>
             /\ last_return'.value = Zero
             /\ LedgerAfter.realized_pnl = LedgerBefore.realized_pnl
        /\ \A x \in DOMAIN positions :
             positions'[x].realized_pnl # positions[x].realized_pnl =>
               (UpdateStep /\ Reducing /\ last_return'.symbol = x)
        /\ (last_return' # last_return
            /\ last_return'.op \in {"unrealized_pnl", "total_pnl"}) =>
             positions' = positions ]_vars

\* total_pnl was asked of a position that is open and has realized a gain
C17_Witness ==
    /\ last_return.op = "total_pnl"
    /\ positions[last_return.symbol].quantity # 0
    /\ positions[last_return.symbol].realized_pnl # Zero
    /\ last_return.value # positions[last_return.symbol].realized_pnl

\* what one symbol contributes to total_unrealized_pnl(prices)
UnrealizedOf(x, prices) ==
    IF x \in DOMAIN positions /\ x \in DOMAIN prices /\ positions[x].quantity # 0
    THEN RatMulInt(positions[x].quantity,
                   RatSub(RatOfInt(prices[x]), positions[x].avg_cost))
    ELSE Zero

\* C18: total_unrealized_pnl(prices) is the sum of unrealized_pnl(prices[s])
\* over the symbols with nonzero quantity that are keys of prices; a symbol
\* that is flat or has no price adds nothing and raises nothing.
C18_TotalUnrealized ==
    (last_return.op = "total_unrealized_pnl") =>
        last_return.value = RatAdd(UnrealizedOf("AAPL", last_return.prices),
                                   UnrealizedOf("MSFT", last_return.prices))

\* the total was taken with a price for AAPL only, AAPL short and MSFT open
C18_Witness ==
    /\ last_return.op = "total_unrealized_pnl"
    /\ DOMAIN last_return.prices = {"AAPL"}
    /\ DOMAIN positions = Symbols
    /\ positions["AAPL"].quantity < 0
    /\ positions["MSFT"].quantity # 0
    /\ last_return.value # Zero

\* the realized_pnl of a symbol's ledger, 0 when it has none
RealizedOf(x) == IF x \in DOMAIN positions THEN positions[x].realized_pnl ELSE Zero

RECURSIVE SumTrades(_)
SumTrades(n) == IF n = 0 THEN Zero ELSE RatAdd(trades[n].realized_pnl, SumTrades(n - 1))

\* C19: after any sequence of Portfolio.update calls total_realized_pnl() is
\* the sum of the realized_pnl of the ledgers of all symbols (which is also
\* the sum of the deltas recorded in the trade log).
C19_TotalRealized ==
    /\ total_realized_pnl(positions) = RatAdd(RealizedOf("AAPL"), RealizedOf("MSFT"))
    /\ total_realized_pnl(positions) = SumTrades(Len(trades))
    /\ last_return.op = "total_realized_pnl" =>
         last_return.value = RatAdd(RealizedOf("AAPL"), RealizedOf("MSFT"))

\* the total was taken over two ledgers, the second of which realized a gain
C19_Witness ==
    /\ last_return.op = "total_realized_pnl"
    /\ DOMAIN positions = Symbols
    /\ positions["MSFT"].realized_pnl # Zero
    /\ last_return.value = positions["MSFT"].realized_pnl

\* C20: Portfolio.update(s, side, qty, price) updates the ledger of s only,
\* creating it if absent, appends exactly one Trade to the end of the log,
\* and returns the ledger's realized delta; no step removes a ledger or a
\* Trade or changes an earlier Trade.
C20_UpdateFrame ==
    [][ /\ DOMAIN positions \subseteq DOMAIN positions'
        /\ Len(trades') >= Len(trades)
        /\ SubSeq(trades', 1, Len(trades)) = trades
        /\ UpdateStep =>
             LET r == Position_update(LedgerBefore, last_return'.side, last_return'.qty,
                                      last_return'.price)
             IN  /\ last_return'.op = "update"
                 /\ DOMAIN positions' = DOMAIN positions \cup {last_return'.symbol}
                 /\ \A x \in DOMAIN positions \ {last_return'.symbol} :
                      positions'[x] = positions[x]
                 /\ LedgerAfter = r.position
                 /\ last_return'.value = r.realized
                 /\ trades' = Append(trades, Trade(last_return'.symbol, last_return'.side,
                                                   last_return'.qty, last_return'.price,
                                                   r.realized)) ]_vars

\* two fills on two symbols: the second created its ledger beside the first
C20_Witness ==
    /\ last_return.op = "update"
    /\ Len(trades) = 2
    /\ trades[1].symbol # trades[2].symbol
    /\ positions[trades[1].symbol].quantity # 0
    /\ positions[trades[2].symbol].quantity # 0

\* C13: what a thread reads of (quantity, avg_cost, realized_pnl) while the
\* listener is inside Position.update for that symbol is the whole triple
\* from before the fill or the whole triple from after it.
C13_ReadIsAtomic ==
    seen.symbol # "" => seen.triple \in {seen.before, seen.after}

\* the statements of Position.update leave what the call as a whole leaves
UpdateStepsAgree ==
    upc = "ret" => positions[ulocal.symbol] = ulocal.after


\* the envelopes whose body is one of the five message body types
FiveBodyTypes ==
    {"NewOrderRequest", "CancelRequest", "Ack", "Reject", "Fill"}
RoundTripEnded ==
    /\ codec.stage \in {"raised", "decoded"}
    /\ codec.m # NoEnvelope
    /\ IsDataclass(codec.m.body)
    /\ codec.m.body.kind \in FiveBodyTypes

\* C21: for every envelope m whose body is a NewOrderRequest, CancelRequest,
\* Ack, Reject or Fill, m.to_json() succeeds and Envelope.from_json of its
\* result is an envelope equal to m (same header, same body).
C21_RoundTrip ==
    RoundTripEnded =>
        /\ codec.stage = "decoded"
        /\ codec.out.kind # "Error"
        /\ codec.out.header = codec.m.header
        /\ codec.out.body = codec.m.body

\* a received text that is a JSON object with a header carrying a type and
\* with a body, the type being none of ACK, REJECT, FILL
OtherTypeDecoded ==
    /\ codec.stage = "decoded"
    /\ codec.m = NoEnvelope
    /\ codec.json.json
    /\ "header" \in DOMAIN codec.json.doc
    /\ "body" \in DOMAIN codec.json.doc
    /\ "type" \in DOMAIN codec.json.doc["header"]
    /\ codec.json.doc["header"]["type"] \notin {ACK, REJECT, FILL}

\* C22: decoding a text whose header.type is not ACK, REJECT or FILL, an
\* integer that is no MsgType member included, succeeds and yields the body
\* as the unmodified field mapping.
C22_OtherTypeOpaque ==
    OtherTypeDecoded =>
        /\ codec.out.kind = "dict"
        /\ codec.out.body = codec.json.doc["body"]

\* the submit call of thread t puts its message on the send socket (line 60)
SubmitSends(t) == pc[t] = "send" /\ pc'[t] = "register" /\ IsSubmit(frame[t])
\* the JSON object a NEW_ORDER body is to be for the call with locals f
\* (the keys and string codes of NewOrderRequest.to_dict, lines 58-66)
ExpectedNewOrderBody(f) ==
    [client_order_id |-> f.cid, symbol |-> f.symbol, side |-> Side_as_string(f.side),
     ord_type |-> OrdType_as_string(f.ord_type), qty |-> f.qty,
     limit_price |-> f.price, tif |-> TimeInForce_as_string(f.tif)]

\* C23: the message a send_limit_order/send_market_order call puts on the
\* send socket is a NEW_ORDER whose header carries the seq allocated with the
\* call's client_order_id and whose body carries that client_order_id with the
\* symbol, side, qty, order type, limit price (0 for a market order) and
\* time-in-force of the call.
C23_NewOrderCarriesCall ==
    [][\A t \in Threads :
         SubmitSends(t) =>
           LET sent == send_socket'[Len(send_socket')]
           IN  /\ Len(send_socket') = Len(send_socket) + 1
               /\ sent.json
               /\ sent.doc["header"] =
                    [version |-> 1, type |-> NEW_ORDER, seq |-> frame[t].seq,
                     client_id |-> client_id]
               /\ frame[t].op = "send_market_order" => frame[t].price = 0
               /\ sent.doc["body"] = ExpectedNewOrderBody(frame[t])]_vars

\* the header.seq of the i-th message on the send socket
SeqOnSocket(i) == send_socket[i].doc["header"]["seq"]

\* C24: the NEW_ORDER and CANCEL messages of the client are on the send
\* socket in strictly increasing header.seq order, also with several caller
\* threads.
C24_SocketSeqIncreasing ==
    \A i, j \in 1..Len(send_socket) : i < j => SeqOnSocket(i) < SeqOnSocket(j)

\* get_order_id(c), line 146: _order_id_map.get(c) is None exactly when c is
\* no key of the map
get_order_id_IsNull(m, c) == c \notin MapKeys(m)
\* the listener processes an Ack (line 111)
AckProcessed == lpc = "update" /\ cur.kind = "Ack" /\ lpc' = "dispatch"

\* C25: no step removes a key from the order-id map, so get_order_id(c) stays
\* non-null once an Ack for c has been processed, also after a Reject or a
\* complete Fill for c; and only the processing of an Ack writes the map.
C25_MapNeverShrinks ==
    [][/\ \A a \in acked : ~get_order_id_IsNull(order_id_map, a.cid)
       /\ \A c \in ClientIds :
            ~get_order_id_IsNull(order_id_map, c) => ~get_order_id_IsNull(order_id_map', c)
       /\ order_id_map' # order_id_map => AckProcessed]_vars

\* an order was acked, then rejected and completely filled, and its venue id
\* is still in the map
C25_Witness ==
    \E a \in acked :
        /\ \E r \in rejected : r.cid = a.cid
        /\ \E f \in filled : f.cid = a.cid
        /\ ~get_order_id_IsNull(order_id_map, a.cid)
        /\ a.cid \notin DOMAIN pending_orders

\* C26: after a fill against a non-flat position, avg_cost is unchanged if a
\* nonzero quantity of the same sign remains, is fill_price if the sign of
\* the quantity flipped, and is 0 if the quantity became exactly 0.
C26_AvgCostAfterReduce ==
    [][(UpdateStep /\ Reducing) =>
         LET before == LedgerBefore.quantity
             after == LedgerAfter.quantity
         IN  /\ after = 0 => LedgerAfter.avg_cost = Zero
             /\ (after # 0 /\ (after > 0) = (before > 0)) =>
                  LedgerAfter.avg_cost = LedgerBefore.avg_cost
             /\ (after # 0 /\ (after > 0) # (before > 0)) =>
                  LedgerAfter.avg_cost = RatOfInt(last_return'.price)]_vars

\* a long position opened at price 0 was sold through zero at price 3: it is
\* short 1 at avg_cost 3
C26_Witness ==
    /\ last_return.op = "update"
    /\ last_return.side = SELL
    /\ last_return.price = 3
    /\ Len(trades) = 2
    /\ trades[1].symbol = last_return.symbol
    /\ trades[1].side = BUY
    /\ trades[1].price = 0
    /\ positions[last_return.symbol].quantity < 0
    /\ positions[last_return.symbol].avg_cost = RatOfInt(3)

\* the fill_qty of the BUY fills minus the fill_qty of the SELL fills of
\* symbol x among the first n entries of the trade log
RECURSIVE NetFilled(_, _)
NetFilled(x, n) ==
    IF n = 0 THEN 0
    ELSE NetFilled(x, n - 1)
         + (IF trades[n].symbol # x THEN 0
            ELSE IF trades[n].side = BUY THEN trades[n].qty ELSE -trades[n].qty)

\* C30: after any sequence of updates from a fresh position, quantity is the
\* sum of the fill_qty of the BUY fills minus the sum of the fill_qty of the
\* SELL fills, whichever branches (open, add, reduce, flip, full close) the
\* updates took.
C30_QuantityIsNetFilled ==
    \A x \in DOMAIN positions : positions[x].quantity = NetFilled(x, Len(trades))

\* a position was opened and then sold through zero by a larger fill
C30_Witness ==
    /\ Len(trades) = 2
    /\ trades[1].symbol = trades[2].symbol
    /\ trades[1].side = BUY
    /\ trades[2].side = SELL
    /\ trades[1].qty > 0
    /\ trades[2].qty > trades[1].qty
    /\ positions[trades[1].symbol].quantity = trades[1].qty - trades[2].qty

\* client_order_ids allocated by a submit call so far
AllocatedIds == 1..(next_order_id - 1)

\* C29: cancel_order(symbol, c) leaves the pending-order table as it was (no
\* entry added, none altered), for any c, so every key of the table is a
\* client_order_id allocated by a submit call.
C29_CancelLeavesPending ==
    [][/\ \A t \in Threads : CancelReturned(t) => pending_orders' = pending_orders
       /\ DOMAIN pending_orders' \subseteq AllocatedIds']_vars

\* C27: at most one listener Thread of the client is alive at any time,
\* whatever sequence of start(), stop() and disconnect() calls is made, so
\* at most one is handling an inbound message.
C27_OneListener ==
    /\ Cardinality(AliveThreads) <= 1
    /\ Cardinality({ i \in AliveThreads : lthreads[i].at = "handle" }) <= 1

\* Thread i starts a new iteration of the loop in this step
BeginsIteration(i) == lthreads[i].at = "test" /\ lthreads'[i].at = "poll"
\* Thread i ends an iteration in which no message arrived
IdleIteration(i) == lthreads[i].at = "poll" /\ lthreads'[i].at = "test"

\* C28: once stop() has cleared the running flag, a listener Thread ends
\* after at most the iteration it is in (it begins no further iteration),
\* and an iteration in which no message arrived changes no client state and
\* calls no observer.
C28_StopsAfterCurrentIteration ==
    [][\A i \in 1..Len(lthreads) :
         /\ BeginsIteration(i) => ~lthreads[i].stopped
         /\ IdleIteration(i) => UNCHANGED clientVars]_vars

\* the sum of the realized_pnl of the Trades of symbol x among the first n
\* entries of the trade log
RECURSIVE SumTradesOf(_, _)
SumTradesOf(x, n) ==
    IF n = 0 THEN Zero
    ELSE IF trades[n].symbol = x
         THEN RatAdd(SumTradesOf(x, n - 1), trades[n].realized_pnl)
         ELSE SumTradesOf(x, n - 1)

\* C31: after any sequence of Portfolio.update calls the realized_pnl of the
\* ledger of every symbol is the sum of the realized_pnl of that symbol's
\* Trades in the log, so total_realized_pnl() is the sum of realized_pnl over
\* the whole log.
C31_LedgerMatchesLog ==
    /\ \A x \in Symbols : RealizedOf(x) = SumTradesOf(x, Len(trades))
    /\ total_realized_pnl(positions) =
         RatAdd(SumTradesOf("AAPL", Len(trades)), SumTradesOf("MSFT", Len(trades)))
    /\ total_realized_pnl(positions) = SumTrades(Len(trades))

\* a position was opened and closed in full with a gain or a loss, which is
\* in the ledger and in the second Trade
C31_Witness ==
    /\ Len(trades) = 2
    /\ trades[1].symbol = trades[2].symbol
    /\ trades[1].realized_pnl = Zero
    /\ trades[2].realized_pnl # Zero
    /\ positions[trades[2].symbol].quantity = 0
    /\ positions[trades[2].symbol].realized_pnl = trades[2].realized_pnl

\* the bot's fill observer has returned for the Fill the listener is
\* handling (it is the first observer of the FILL list)
FillDelivered == lpc = "dispatch" /\ cur.kind = "Fill" /\ idx > 1

\* C32: for every Fill the client delivers to the bot, the strategy's
\* on_fill is invoked for that Fill after the portfolio has applied it
\* exactly once and after the last price of its symbol was set to
\* fill_price, so the position on_fill reads includes the fill.
C32_FillAppliedBeforeOnFill ==
    FillDelivered =>
        LET fill == cur.body
            found == on_fill_seen
        IN  /\ found.serial = polled
            /\ found.fill = fill
            /\ blocal.serial = polled
            /\ found.price = fill.fill_price
            /\ Len(found.trades) = blocal.trades + 1
            /\ LET last == found.trades[Len(found.trades)]
               IN  /\ last.symbol = fill.symbol
                   /\ last.side = fill.side
                   /\ last.qty = fill.fill_qty
                   /\ last.price = fill.fill_price
            /\ found.position =
                 blocal.quantity + signed_qty(fill.side, fill.fill_qty)
            /\ trades = found.trades
            /\ get_quantity(positions, fill.symbol) = found.position

\* a second Fill was delivered: on_fill found the position made by both
C32_Witness ==
    /\ FillDelivered
    /\ polled = 2
    /\ Len(trades) = 2
    /\ trades[1].symbol = trades[2].symbol
    /\ trades[1].side = BUY
    /\ trades[2].side = SELL
    /\ on_fill_seen.serial = 2
    /\ on_fill_seen.position = trades[1].qty - trades[2].qty
    /\ on_fill_seen.price = 3
=============================================================================
